---- MODULE Spec2Model ----
(***************************************************************************)
(* AudioSyncMaster: the delay-estimation engine of src/python/bridge.py    *)
(* and its analysis back ends ("Python Files"/series_sync.py and           *)
(* movie_sync.py).                                                         *)
(*                                                                         *)
(* Conventions of the model                                                *)
(*  - A sample buffer is a sequence of integers (1-based in the model,     *)
(*    0-based in the code; every index formula below says which).          *)
(*  - Times are counted in samples; a duration of D seconds is D*sr        *)
(*    samples.  A delay of lag samples is lag/sr*1000 ms in the code; the  *)
(*    model keeps the exact numerator lag*1000 (the value in ms is that    *)
(*    numerator divided by sr), so that no rounding is introduced.         *)
(*  - An optional value (Python's None or a value) is a sequence of at    *)
(*    most one element: None is <<>>, a present value x is <<x>>.          *)
(***************************************************************************)
EXTENDS Integers, Sequences, FiniteSets, TLC

None == <<>>

Some(x) == <<x>>

IsNone(o) == o = <<>>

Val(o) == Head(o)

\* F applied to the value of x, computed once (a local variable of the code)
Bind(x, F(_)) == CHOOSE r \in {F(v) : v \in {x}} : TRUE

(***************************************************************************)
(* Bounds of the model.                                                    *)
(***************************************************************************)
\* longest buffer handed to the estimator in the estimator-only specification
MaxLen == 4
\* largest absolute sample value in the estimator-only specification
MaxAmp == 1

(***************************************************************************)
(* Integer helpers.                                                        *)
(***************************************************************************)
Abs(x) == IF x < 0 THEN -x ELSE x

Min(a, b) == IF a <= b THEN a ELSE b

Max(a, b) == IF a >= b THEN a ELSE b

RECURSIVE SumBetween(_, _, _)
\* f[lo] + ... + f[hi], summed by halves
SumBetween(f, lo, hi) ==
    IF hi < lo THEN 0
    ELSE IF hi = lo THEN f[lo]
    ELSE SumBetween(f, lo, (lo + hi) \div 2) + SumBetween(f, (lo + hi) \div 2 + 1, hi)

SeqSum(y) == SumBetween(y, 1, Len(y))

IsConstant(y) == \A i \in 1..Len(y) : y[i] = y[1]

(***************************************************************************)
(* estimate_sync_offset_crosscorr (series_sync.py:159-181, identical in    *)
(* movie_sync.py:130-147).                                                 *)
(***************************************************************************)
\* _normalize: y -= mean(y); y /= std(y) when std > 1e-8.  The model keeps
\* n*(y - mean) = n*y - sum(y): a positive multiple of the code's vector
\* (dividing by std > 0 is another positive factor), so the position of the
\* maximum of the correlation is the code's.  A constant buffer normalizes to
\* all zeros in both (std = 0 is not > 1e-8, no division).
Centered(y, sum) == [i \in 1..Len(y) |-> Len(y) * y[i] - sum]

Normalize(y) == Bind(y, LAMBDA v : Bind(SeqSum(v), LAMBDA sum : Centered(v, sum)))

RECURSIVE CorrSum(_, _, _, _, _)
\* sum over m in lo..hi (0-based) of y_p[m] * y_s[m - lag], summed by halves
CorrSum(y_p, y_s, lag, lo, hi) ==
    IF hi < lo THEN 0
    ELSE IF hi = lo THEN y_p[lo + 1] * y_s[lo - lag + 1]
    ELSE CorrSum(y_p, y_s, lag, lo, (lo + hi) \div 2)
            + CorrSum(y_p, y_s, lag, (lo + hi) \div 2 + 1, hi)

\* fftconvolve(y_p, y_s[::-1], mode='full')[n], n in 0 .. len(y_p)+len(y_s)-2:
\* sum_m y_p[m] * y_s[len(y_s)-1-(n-m)].  With lag = n - (len(y_s)-1) the
\* term is y_p[m] * y_s[m - lag], for the m where both indices exist.
CorrAt(y_p, y_s, n) ==
    LET lag == n - (Len(y_s) - 1)
    IN CorrSum(y_p, y_s, lag, Max(0, lag), Min(Len(y_p) - 1, Len(y_s) - 1 + lag))

CorrFull(y_p, y_s) ==
    [k \in 1..(Len(y_p) + Len(y_s) - 1) |-> CorrAt(y_p, y_s, k - 1)]

\* np.argmax: 0-based index of the first maximum
FirstMaximum(c) ==
    (CHOOSE i \in 1..Len(c) :
        /\ \A j \in 1..Len(c) : c[j] <= c[i]
        /\ \A j \in 1..(i - 1) : c[j] < c[i]) - 1

ArgMax(c) == Bind(c, LAMBDA v : FirstMaximum(v))

\* lag = np.argmax(corr) - (len(y_s) - 1), in samples
PeakLagOffByOne(y_p, y_s) == ArgMax(CorrFull(y_p, y_s)) - Len(y_s)

PeakLag(y_p, y_s) == ArgMax(CorrFull(y_p, y_s)) - (Len(y_s) - 1)

CrosscorrLag(primary_audio, secondary_audio) ==
    Bind(Normalize(primary_audio), LAMBDA y_p :
        Bind(Normalize(secondary_audio), LAMBDA y_s : PeakLag(y_p, y_s)))

\* delay_sec * 1000 with delay_sec = lag / sr: the numerator of the result
\* over sr (the result in ms is this value divided by sr)
estimate_sync_offset_crosscorr(primary_audio, secondary_audio) ==
    CrosscorrLag(primary_audio, secondary_audio) * 1000

\* the callers truncate both buffers to the shorter length
EstimateOnPrefix(a, b, min_len) ==
    estimate_sync_offset_crosscorr(SubSeq(a, 1, min_len), SubSeq(b, 1, min_len))

\* one sample period, 1000/sr ms, as a numerator over sr
SamplePeriod == 1000

(***************************************************************************)
(* The measurement rate and the window cap.  The code measures at          *)
(* sr = 8000 Hz (bridge.py:192, series_sync.py:192) and caps the energy    *)
(* window at 30 s (bridge.py:193).  The model keeps every formula of the   *)
(* code and scales these two numbers down so that buffers stay small: sr   *)
(* is a variable that a run fixes to SrSmall, or to SrWindow, the smallest *)
(* rate at which the 25 ms hop of the energy windower is a whole sample.   *)
(***************************************************************************)
SrSmall == 4

SrWindow == 40

WindowCapSec == 2

\* the fixed-point scale of the short-time RMS (it stands for the float
\* precision of librosa.feature.rms)
RmsScale == 10000

(***************************************************************************)
(* Files.  A path is <<directory, name>>.  The content of a file is a      *)
(* fixed aperiodic test signal, optionally with `lead` samples of silence  *)
(* prepended and `skip` leading samples of the signal removed; a silent    *)
(* file is all zeros.  The samples loud[1]..loud[2] of the signal are loud *)
(* (speech or music), the rest is room tone.                               *)
(***************************************************************************)
basename(path) == path[2]

\* the test signal (1-based sample index), values in -3..3
Sig(j) == (((j * j) % 251) % 7) - 3

\* how much louder the loud part of a signal is
LoudGain == 5

SigAt(f, j) ==
    IF j >= f.loud[1] /\ j <= f.loud[2] THEN LoudGain * Sig(j) ELSE Sig(j)

FileSample(f, i) ==
    IF f.silent \/ i <= f.lead THEN 0 ELSE SigAt(f, i - f.lead + f.skip)

FileContent(f) == [i \in 1..f.len |-> FileSample(f, i)]

\* y[a:b] of the code (0-based, end exclusive, clipped to the buffer)
Slice(y, a, b) ==
    LET lo == Min(Max(a, 0), Len(y))
        hi == Min(Max(b, 0), Len(y))
    IN IF hi <= lo THEN <<>> ELSE [i \in 1..(hi - lo) |-> y[lo + i]]

(***************************************************************************)
(* load_audio (series_sync.py:32-101): the decoded samples of              *)
(* [offset, offset + duration) at rate sr, clipped to the end of the file, *)
(* or None when no decoder could read the file.  f.decode is "ok", "fail"  *)
(* (every decode fails), "fail_seek" (a decode at offset > 0 fails) or     *)
(* "fail_inside" (a damaged middle: a decode that starts after the start   *)
(* of the file and ends before its end fails).  Offsets and durations are  *)
(* in samples.                                                             *)
(***************************************************************************)
load_audio(f, duration, offset) ==
    IF \/ f.decode = "fail"
       \/ f.decode = "fail_seek" /\ offset > 0
       \/ f.decode = "fail_inside" /\ offset > 0 /\ offset + duration < f.len
    THEN None
    ELSE Some(Slice(FileContent(f), offset, offset + duration))

(***************************************************************************)
(* get_audio_duration (series_sync.py:104-156): the duration the first     *)
(* answering backend reports (in samples here; container metadata, so not  *)
(* necessarily the decodable length), or None when no backend reports one. *)
(***************************************************************************)
get_audio_duration(f) == f.dur

(***************************************************************************)
(* select_high_energy_window (bridge.py:132-153).                          *)
(***************************************************************************)
\* int(0.05 * sr) and int(0.025 * sr)
frame_of(rate) == (5 * rate) \div 100

hop_of(rate) == (25 * rate) \div 1000

\* window_sec = min(30.0, float(segment_sec)), in seconds
window_sec_of(segment_sec) == Min(WindowCapSec, segment_sec)

RECURSIVE IsqrtBetween(_, _, _)
\* the largest r with r*r <= x, given lo*lo <= x < hi*hi (bisection)
IsqrtBetween(x, lo, hi) ==
    LET mid == (lo + hi) \div 2
    IN IF hi - lo <= 1 THEN lo
       ELSE IF mid * mid <= x THEN IsqrtBetween(x, mid, hi)
       ELSE IsqrtBetween(x, lo, mid)

\* 46340 is the largest integer whose square is a 32-bit integer
Isqrt(x) == IsqrtBetween(x, 0, Min(x + 1, 46340))

\* librosa.feature.rms(y, frame_length=frame, hop_length=hop)[0][t], t 0-based:
\* the buffer is padded with frame//2 zeros on both sides (center=True), frame
\* t covers padded samples t*hop .. t*hop+frame-1, and the value is
\* sqrt(mean(square)).  The model keeps floor(sqrt(RmsScale * sum(square))),
\* a positive multiple of it up to the fixed-point precision.
PaddedSample(y, i, frame) ==
    LET j == i - (frame \div 2)
    IN IF j >= 0 /\ j < Len(y) THEN y[j + 1] ELSE 0

RECURSIVE FrameSquares(_, _, _, _)
\* the sum of the squares of the padded samples first .. first + n - 1
FrameSquares(y, first, n, frame) ==
    IF n <= 0 THEN 0
    ELSE IF n = 1
    THEN PaddedSample(y, first, frame) * PaddedSample(y, first, frame)
    ELSE FrameSquares(y, first, n \div 2, frame)
            + FrameSquares(y, first + n \div 2, n - n \div 2, frame)

RmsFrames(y, frame, hop) == 1 + (Len(y) + 2 * (frame \div 2) - frame) \div hop

Rms(y, frame, hop) ==
    [k \in 1..RmsFrames(y, frame, hop) |->
        Isqrt(RmsScale * FrameSquares(y, (k - 1) * hop, frame, frame))]

\* rms[first] + ... + rms[first + n - 1], 1-based
WindowSum(rms, first, n) == SumBetween(rms, first, first + n - 1)

\* np.convolve(rms, np.ones(window_frames), mode="valid")
Energy(rms, window_frames) ==
    [k \in 1..(Len(rms) - window_frames + 1) |-> WindowSum(rms, k, window_frames)]

\* lines 145-153, given the RMS sequence of line 142
WindowFrom(y, rms, hop, window_len, window_frames) ==
    LET idx == IF Len(rms) < window_frames
               THEN ArgMax(rms)
               ELSE ArgMax(Energy(rms, window_frames))
        start == idx * hop
    IN Slice(y, start, Min(Len(y), start + window_len))

\* the first window_len samples, whatever the energy
first_window(y, rate, window_sec) == Slice(y, 0, Max(1, window_sec * rate))

select_high_energy_window(y, rate, window_sec) ==
    LET window_len == Max(1, window_sec * rate)
        frame == frame_of(rate)
        hop == hop_of(rate)
    IN IF Len(y) = 0 THEN y
       ELSE IF Len(y) <= window_len THEN y
       ELSE IF frame <= 0 \/ hop <= 0 THEN Slice(y, 0, window_len)
       ELSE IF RmsFrames(y, frame, hop) = 0 THEN Slice(y, 0, window_len)
       ELSE Bind(Rms(y, frame, hop), LAMBDA rms :
                WindowFrom(y, rms, hop, window_len,
                           Max(1, (window_sec * rate) \div hop)))

(***************************************************************************)
(* Buffers of the estimator-only specification.                            *)
(***************************************************************************)
Amps == (0 - MaxAmp)..MaxAmp

Buffers == UNION {[1..n -> Amps] : n \in 1..MaxLen}

\* b delayed by k samples: its content appears k samples later (k < 0:
\* earlier); samples shifted in are silence, the length is kept
shift(b, k) ==
    [i \in 1..Len(b) |->
        IF i - k >= 1 /\ i - k <= Len(b) THEN b[i - k] ELSE 0]

(***************************************************************************)
(* State.                                                                  *)
(***************************************************************************)
\* the analyses that can be in progress at once
MaxTasks == 2

Tasks == 1..MaxTasks

VARIABLES
    est_primary,    \* the primary buffer handed to the estimator
    est_secondary,  \* the secondary buffer handed to the estimator
    est_k,          \* the shift that produced est_secondary from est_primary
    est_delay,      \* the estimator's result (None before the call)
    sr,             \* the measurement rate of the run (8000 in the code)
    mode,           \* "series" or "movie": which back end is the fallback
    fs,             \* the file system: path -> file
    segment,        \* segment_sec of the run, in seconds
    fault,          \* what goes wrong in the environment of the run
    cache,          \* the segment cache: key -> array
    ffmpeg_ready,   \* _ffmpeg_ready (bridge.py:31)
    stdout,         \* what was written to standard output, in order: the event
                    \* records of emit and the lines of console.print
    pc,             \* per task: where its analysis is
    pair,           \* per task: <<primary_path, secondary_path>>
    start_delay,    \* per task: the local start_delay of the analyzer
    durations,      \* per task: <<primary_duration, secondary_duration>>
    acquired,       \* per task: the segment acquisitions made, in order
    result,         \* per task: the tuple the analyzer returned (None before)
    request,        \* the request read from standard input
    disk,           \* what the folders of the request hold
    main_pc,        \* where the main thread of run_movie / run_series is
    pairs,          \* the pairs submitted to the pool, in submission order
    processed,      \* the local counter of the collecting loop
    results,        \* the local results list of the run
    current,        \* the task whose future the collecting loop holds
    completion,     \* the tasks whose worker has returned, in the order they did
    early,          \* the tasks that had finished when as_completed started
    yielded,        \* the tasks as_completed has yielded, in order
    puts,           \* the cache puts made so far: <<acquisition, array>>, in order
    invocation,     \* which run of the program this is (the cache outlives a run)
    cfile,          \* the file of one cache entry: None, or its chunks
    upc,            \* per cache user: where its load_audio_segment is
    got,            \* per cache user: what its load_audio_segment returned
    lock,           \* _emit_lock (bridge.py:30): None, or the thread holding it
    epc,            \* per emitting thread: where its emit is
    wire,           \* the bytes that reached standard output, in pieces
    pending,        \* the pieces in the buffer of sys.stdout, not yet flushed
    backends,       \* what the decoders do in one call of load_audio
    loaded,         \* what that call of load_audio came to (None before it)
    win_y,          \* the buffer handed to select_high_energy_window
    win_out,        \* what select_high_energy_window returned (None before)
    spc,            \* per thread: where its setup_ffmpeg_env is
    env_path,       \* os.environ["PATH"]: the folders prepended, first first
    bundled         \* the candidate folder that holds ffmpeg (None: none does)

est_vars == <<est_primary, est_secondary, est_k, est_delay>>

env_vars == <<sr, mode, fs, segment, fault>>

task_vars == <<pc, pair, start_delay, durations, acquired, result>>

order_vars == <<completion, early, yielded>>

run_vars == <<request, disk, main_pc, pairs, processed, results, current, order_vars>>

\* the variables that only the specifications of single components use
file_vars == <<cfile, upc, got>>

emit_vars == <<lock, epc, wire, pending>>

load_vars == <<backends, loaded>>

window_vars == <<win_y, win_out>>

setup_vars == <<spc, env_path, bundled>>

side_vars == <<load_vars, window_vars, setup_vars>>

aux_vars == <<puts, invocation, file_vars, emit_vars, side_vars>>

vars == <<est_vars, env_vars, aux_vars, cache, ffmpeg_ready, stdout, task_vars, run_vars>>

(***************************************************************************)
(* The segment cache (bridge.py:100-129) and load_audio_segment            *)
(* (bridge.py:156-166).  The cache is a function from keys to arrays.      *)
(***************************************************************************)
\* the string that is hashed: path|mtime|size|sr|duration|offset|tag, or
\* without mtime and size when os.stat fails (f.stat = None).  A string is
\* the sequence of its pieces: the pieces of the path, then each field after
\* a "|", a number as str() writes it.  The digest of the string stands for
\* the string (SHA-256 is taken to be free of collisions).
\* the key without the modification time and the size, whatever os.stat says
cache_key_without_stat(path, f, rate, duration, offset, tag) ==
    path \o <<"|", ToString(rate), "|", ToString(duration), "|",
              ToString(offset), "|", tag>>

cache_key(path, f, rate, duration, offset, tag) ==
    IF IsNone(f.stat)
    THEN path \o <<"|", ToString(rate), "|", ToString(duration), "|",
                   ToString(offset), "|", tag>>
    ELSE path \o <<"|", ToString(Head(Val(f.stat))), "|",
                   ToString(Head(Tail(Val(f.stat)))), "|", ToString(rate), "|",
                   ToString(duration), "|", ToString(offset), "|", tag>>

load_cached_array(store, key) ==
    IF key \in DOMAIN store THEN Some(store[key]) ELSE None

save_cached_array_lost(store, key, arr) == store

\* the write is best effort: when it fails (fault = "cache_write": the cache
\* directory cannot be written) the exception is swallowed (lines 126-129)
save_cached_array(store, key, arr) ==
    IF fault = "cache_write" THEN store
    ELSE [k \in (DOMAIN store) \cup {key} |-> IF k = key THEN arr ELSE store[k]]

\* lines 164-166: the decoded buffer is windowed, saved and returned
Windowed(store, key, w) ==
    [buf |-> Some(w), cache |-> save_cached_array(store, key, w), from |-> "decoder"]

\* lines 161-166 without line 164: the decoded buffer saved as it is
DecodedUnwindowed(store, key, y, rate, window_sec) ==
    IF IsNone(y)
    THEN [buf |-> None, cache |-> store, from |-> "decoder"]
    ELSE Windowed(store, key, Val(y))

\* lines 161-166, given the decoder's answer y
Decoded(store, key, y, rate, window_sec) ==
    IF IsNone(y)
    THEN [buf |-> None, cache |-> store, from |-> "decoder"]
    ELSE Bind(Val(y), LAMBDA decoded :
            Bind(select_high_energy_window(decoded, rate, window_sec), LAMBDA w :
                Windowed(store, key, w)))

\* lines 158-166, given the key
Lookup(store, key, f, rate, duration, offset, window_sec) ==
    IF ~IsNone(load_cached_array(store, key))
    THEN [buf |-> load_cached_array(store, key), cache |-> store, from |-> "cache"]
    ELSE Bind(load_audio(f, duration, offset), LAMBDA y :
            Decoded(store, key, y, rate, window_sec))

\* the returned buffer, the cache afterwards, and where the buffer came from
load_audio_segment(store, path, f, rate, duration, offset, tag, window_sec) ==
    Lookup(store, cache_key(path, f, rate, duration, offset, tag), f, rate,
           duration, offset, window_sec)

(***************************************************************************)
(* emit (bridge.py:34-37): one record appended to standard output under    *)
(* the emit lock.                                                          *)
(***************************************************************************)
emit(out, payload) == Append(out, payload)

emit_log(out, message) == emit(out, [type |-> "log", message |-> message])

(***************************************************************************)
(* console.print of the back ends (series_sync.py:29, movie_sync.py:26):   *)
(* `console = Console()` writes to sys.stdout, so a printed line lands on  *)
(* standard output as it is: not through emit, and not as an event record. *)
(***************************************************************************)
ConsoleLine(message) == [type |-> "console", message |-> message]

\* os.path.splitext(path)[1] in video_exts (series_sync.py:38-40), for the
\* names the model uses
is_video(path) == path[Len(path)] \in {"ep1.mkv", "ep2.mkv", "ep3.mkv", "a.mkv", "b.mkv"}

\* what a call of load_audio that returns None prints: for a file that is
\* not a video the warning of line 66, then in any case one line (89, 97 or
\* 100: the transcoder failed, was not found, or something else went wrong)
load_audio_console(path) ==
    IF is_video(path)
    THEN <<ConsoleLine(<<"Error: FFmpeg failed for ", path[Len(path)], ".">>)>>
    ELSE <<ConsoleLine(<<"Warning: Direct load and librosa failed for ", path[Len(path)],
                         ". Trying FFmpeg.">>),
           ConsoleLine(<<"Error: FFmpeg failed for ", path[Len(path)], ".">>)>>

\* what load_audio_segment prints: it calls load_audio on a cache miss
SegmentConsole(path, r) ==
    IF r.from = "decoder" /\ IsNone(r.buf) THEN load_audio_console(path) ELSE <<>>

\* what a direct call of load_audio with the answer y prints
DirectConsole(path, y) == IF IsNone(y) THEN load_audio_console(path) ELSE <<>>

\* what get_audio_duration with the answer d prints (series_sync.py:154,
\* movie_sync.py:126)
get_audio_duration_console(path, d) ==
    IF IsNone(d)
    THEN <<ConsoleLine(<<"Could not get duration for ", path[Len(path)],
                         " with any method.">>)>>
    ELSE <<>>

(***************************************************************************)
(* setup_ffmpeg_env (bridge.py:67-87): a call that reads the flag as not   *)
(* set logs which ffmpeg is used and sets the flag.                        *)
(***************************************************************************)
setup_ffmpeg_env_out(out, ready) ==
    IF ready THEN out ELSE emit_log(out, <<"Using ffmpeg">>)

(***************************************************************************)
(* The error texts.  A text is a sequence of its parts.                    *)
(***************************************************************************)
ErrFailedStart == <<"Failed to load start segment.">>

ErrInsufficientStart == <<"Insufficient audio at start for analysis.">>

ErrDurationEnhancedAsSimple == <<"Could not get duration for end analysis.">>

ErrDurationEnhanced == <<"Could not get duration for analysis.">>

ErrDurationSimple == <<"Could not get duration for end analysis.">>

ErrFailedEnd == <<"Failed to load end segment.">>

ErrInsufficientEnd == <<"Insufficient audio at end for analysis.">>

\* str(e) of the exception an analysis step raised
ExcText == <<"exception text">>

\* `if min_len <= sr` (bridge.py:201, 233); process_pair proceeds `if
\* min_len > sr` and reports the same otherwise (series_sync.py:207, 237)
InsufficientAudioStrict(min_len, rate) == min_len < rate

InsufficientAudio(min_len, rate) == min_len <= rate

\* end_delay = end_delay_raw + duration_diff_ms with duration_diff_ms =
\* (primary_duration - secondary_duration) * 1000 (bridge.py:239-240,
\* series_sync.py:243-251); durations in samples, the result a numerator over sr
ReconcileWithoutDurations(end_delay_raw, primary_duration, secondary_duration) ==
    end_delay_raw

Reconcile(end_delay_raw, primary_duration, secondary_duration) ==
    end_delay_raw + (primary_duration - secondary_duration) * 1000

ResultWithoutError(t, sd, ed, err) ==
    [primary_path |-> pair[t][1], secondary_path |-> pair[t][2],
     start_delay |-> sd, end_delay |-> ed, error |-> None]

Result(t, sd, ed, err) ==
    [primary_path |-> pair[t][1], secondary_path |-> pair[t][2],
     start_delay |-> sd, end_delay |-> ed, error |-> err]

\* one segment acquisition: by which function, whether the buffer came from
\* the cache or from a call of the decoder, and whether there was a buffer
Acq(path, tag, r) ==
    [path |-> path, tag |-> tag, from |-> r.from, via |-> "load_audio_segment",
     loaded |-> ~IsNone(r.buf)]

Return(t, res) ==
    /\ pc' = [pc EXCEPT ![t] = "returned"]
    /\ result' = [result EXCEPT ![t] = Some(res)]

\* the exception leaves the analyzer; what the caller does is its business
Raise(t) ==
    /\ pc' = [pc EXCEPT ![t] = "raised"]
    /\ UNCHANGED result

Goto(t, label) ==
    /\ pc' = [pc EXCEPT ![t] = label]
    /\ UNCHANGED result

(***************************************************************************)
(* enhanced_process_pair (bridge.py:190-242), one action per phase.        *)
(***************************************************************************)
\* lines 197-206, given the two start segments
EnhancedStartLoaded(t, r1, r2) ==
    /\ cache' = r2.cache
    /\ stdout' = setup_ffmpeg_env_out(stdout, pc[t] = "e_load")
                    \o SegmentConsole(pair[t][1], r1) \o SegmentConsole(pair[t][2], r2)
    /\ acquired' = [acquired EXCEPT ![t] =
          @ \o <<Acq(pair[t][1], "start", r1), Acq(pair[t][2], "start", r2)>>]
    /\ IF IsNone(r1.buf) \/ IsNone(r2.buf)
       THEN /\ Return(t, Result(t, None, None, Some(ErrFailedStart)))
            /\ UNCHANGED start_delay
       ELSE IF InsufficientAudio(Min(Len(Val(r1.buf)), Len(Val(r2.buf))), sr)
       THEN /\ Return(t, Result(t, None, None, Some(ErrInsufficientStart)))
            /\ UNCHANGED start_delay
       ELSE IF fault = "estimate_start"
       THEN /\ Raise(t)
            /\ UNCHANGED start_delay
       ELSE /\ Goto(t, "e_dur")
            /\ start_delay' = [start_delay EXCEPT ![t] =
                  Some(EstimateOnPrefix(Val(r1.buf), Val(r2.buf),
                                        Min(Len(Val(r1.buf)), Len(Val(r2.buf)))))]

\* line 195: the secondary is acquired against the cache the primary left
EnhancedStartSecond(t, r1) ==
    \E r2 \in {load_audio_segment(r1.cache, pair[t][2], fs[pair[t][2]], sr, segment * sr,
                       0, "start", window_sec_of(segment))} :
        EnhancedStartLoaded(t, r1, r2)

\* lines 191, 68-70: enhanced_process_pair calls setup_ffmpeg_env, which
\* reads _ffmpeg_ready.  No lock is held between this read and the
\* assignment of line 83 or 87, so other threads run in between: the thread
\* goes on with the flag as it read it ("e_load": set, "e_setup": not set)
EnhancedSetup(t) ==
    /\ pc[t] = "e_start"
    /\ pc' = [pc EXCEPT ![t] = IF ffmpeg_ready THEN "e_load" ELSE "e_setup"]
    /\ UNCHANGED <<run_vars, est_vars, env_vars, aux_vars, cache, ffmpeg_ready, stdout, pair,
                   start_delay, durations, acquired, result>>

\* lines 72-87 for a thread that read the flag as not set, then lines
\* 192-206: the two start segments, the start estimate
EnhancedStart(t) ==
    /\ pc[t] \in {"e_setup", "e_load"}
    /\ ffmpeg_ready' = TRUE
    /\ IF fault = "cache_dir"
       THEN \* os.makedirs in load_cached_array raises (bridge.py:111)
            /\ Raise(t)
            /\ stdout' = setup_ffmpeg_env_out(stdout, pc[t] = "e_load")
            /\ UNCHANGED <<cache, acquired, start_delay>>
       ELSE \E r1 \in {load_audio_segment(cache, pair[t][1], fs[pair[t][1]], sr,
                                   segment * sr, 0, "start", window_sec_of(segment))} :
            EnhancedStartSecond(t, r1)
    /\ UNCHANGED <<run_vars, est_vars, env_vars, aux_vars, pair, durations>>

\* lines 208-211: the two durations
EnhancedDurations(t) ==
    /\ pc[t] = "e_dur"
    /\ LET primary_duration == get_audio_duration(fs[pair[t][1]])
           secondary_duration == get_audio_duration(fs[pair[t][2]])
       IN IF IsNone(primary_duration) \/ IsNone(secondary_duration)
          THEN /\ Return(t, Result(t, start_delay[t], None, Some(ErrDurationEnhanced)))
               /\ UNCHANGED durations
          ELSE /\ Goto(t, "e_mid")
               /\ durations' = [durations EXCEPT ![t] =
                     <<Val(primary_duration), Val(secondary_duration)>>]
    /\ stdout' = stdout
                    \o get_audio_duration_console(pair[t][1],
                                                  get_audio_duration(fs[pair[t][1]]))
                    \o get_audio_duration_console(pair[t][2],
                                                  get_audio_duration(fs[pair[t][2]]))
    /\ UNCHANGED <<run_vars, est_vars, env_vars, aux_vars, cache, ffmpeg_ready, pair,
                   start_delay, acquired>>

\* lines 217-223, given the two mid segments
EnhancedMidLoaded(t, r1, r2) ==
    /\ cache' = r2.cache
    /\ acquired' = [acquired EXCEPT ![t] =
          @ \o <<Acq(pair[t][1], "mid", r1), Acq(pair[t][2], "mid", r2)>>]
    /\ IF ~IsNone(r1.buf) /\ ~IsNone(r2.buf)
          /\ Min(Len(Val(r1.buf)), Len(Val(r2.buf))) > sr
       THEN stdout' = emit_log(stdout \o SegmentConsole(pair[t][1], r1)
                                      \o SegmentConsole(pair[t][2], r2),
                               <<"Mid delay for ", basename(pair[t][1])>>)
       ELSE stdout' = stdout \o SegmentConsole(pair[t][1], r1)
                             \o SegmentConsole(pair[t][2], r2)

\* line 216
EnhancedMidSecond(t, r1) ==
    \E r2 \in {load_audio_segment(r1.cache, pair[t][2], fs[pair[t][2]], sr, segment * sr,
                       Max(0, (durations[t][2] - segment * sr) \div 2),
                       "mid", window_sec_of(segment))} :
        EnhancedMidLoaded(t, r1, r2)

\* lines 213-223: the mid segments and the mid delay, which is only logged
EnhancedMid(t) ==
    /\ pc[t] = "e_mid"
    /\ \E r1 \in {load_audio_segment(cache, pair[t][1], fs[pair[t][1]], sr, segment * sr,
                             Max(0, (durations[t][1] - segment * sr) \div 2),
                             "mid", window_sec_of(segment))} :
            EnhancedMidSecond(t, r1)
    /\ Goto(t, "e_end")
    /\ UNCHANGED <<run_vars, est_vars, env_vars, aux_vars, ffmpeg_ready, pair, start_delay, durations>>

\* lines 229-242, given the two end segments
EnhancedEndLoaded(t, r1, r2) ==
    /\ cache' = r2.cache
    /\ stdout' = stdout \o SegmentConsole(pair[t][1], r1) \o SegmentConsole(pair[t][2], r2)
    /\ acquired' = [acquired EXCEPT ![t] =
          @ \o <<Acq(pair[t][1], "end", r1), Acq(pair[t][2], "end", r2)>>]
    /\ IF IsNone(r1.buf) \/ IsNone(r2.buf)
       THEN Return(t, Result(t, start_delay[t], None, Some(ErrFailedEnd)))
       ELSE IF InsufficientAudio(Min(Len(Val(r1.buf)), Len(Val(r2.buf))), sr)
       THEN Return(t, Result(t, start_delay[t], None, Some(ErrInsufficientEnd)))
       ELSE IF fault = "estimate_end"
       THEN Raise(t)
       ELSE Return(t, Result(t, start_delay[t],
                Some(Reconcile(EstimateOnPrefix(Val(r1.buf), Val(r2.buf),
                                   Min(Len(Val(r1.buf)), Len(Val(r2.buf)))),
                               durations[t][1], durations[t][2])),
                None))

\* line 228
EnhancedEndSecond(t, r1) ==
    \E r2 \in {load_audio_segment(r1.cache, pair[t][2], fs[pair[t][2]], sr, segment * sr,
                       Max(0, durations[t][2] - segment * sr),
                       "end", window_sec_of(segment))} :
        EnhancedEndLoaded(t, r1, r2)

\* lines 225-242: the end segments, the end estimate and its reconciliation
EnhancedEnd(t) ==
    /\ pc[t] = "e_end"
    /\ \E r1 \in {load_audio_segment(cache, pair[t][1], fs[pair[t][1]], sr, segment * sr,
                             Max(0, durations[t][1] - segment * sr),
                             "end", window_sec_of(segment))} :
            EnhancedEndSecond(t, r1)
    /\ UNCHANGED <<run_vars, est_vars, env_vars, aux_vars, ffmpeg_ready, pair, start_delay,
                   durations>>

(***************************************************************************)
(* process_pair (series_sync.py:184-260 and movie_sync.py:149-210, which   *)
(* differ only in the words of two error texts), one action per phase.     *)
(* It uses load_audio directly: no cache, no energy window.  Every         *)
(* exception is caught and returned as the error text (lines 258-260).     *)
(***************************************************************************)
PrimaryWord == IF mode = "movie" THEN "video" ELSE "primary"

SecondaryWord == IF mode = "movie" THEN "audio" ELSE "secondary"

ErrFailedStartOf(word, path) == <<"Failed to load start of ", word, ": ", basename(path)>>

ErrFailedEndOf(word, path) == <<"Failed to load end of ", word, ": ", basename(path)>>

Direct(path, tag, y) ==
    [path |-> path, tag |-> tag, from |-> "decoder", via |-> "load_audio",
     loaded |-> ~IsNone(y)]

\* lines 199-214, given the decoder's two answers (the secondary is only
\* decoded when the primary was)
SimpleStartLoaded(t, primary_audio_start, secondary_audio_start) ==
    LET p == pair[t][1]
        s == pair[t][2]
    IN IF IsNone(primary_audio_start)
       THEN /\ Return(t, Result(t, None, None,
                                Some(ErrFailedStartOf(PrimaryWord, p))))
            /\ stdout' = stdout \o DirectConsole(p, primary_audio_start)
            /\ acquired' = [acquired EXCEPT ![t] = Append(@, Direct(p, "start", primary_audio_start))]
            /\ UNCHANGED start_delay
       ELSE /\ acquired' = [acquired EXCEPT ![t] =
                  @ \o <<Direct(p, "start", primary_audio_start),
                        Direct(s, "start", secondary_audio_start)>>]
            /\ stdout' = stdout \o DirectConsole(s, secondary_audio_start)
            /\ IF IsNone(secondary_audio_start)
               THEN /\ Return(t, Result(t, None, None,
                                        Some(ErrFailedStartOf(SecondaryWord, s))))
                    /\ UNCHANGED start_delay
               ELSE IF InsufficientAudio(Min(Len(Val(primary_audio_start)),
                                             Len(Val(secondary_audio_start))), sr)
               THEN /\ Return(t, Result(t, None, None, Some(ErrInsufficientStart)))
                    /\ UNCHANGED start_delay
               ELSE IF fault = "estimate_start"
               THEN \* the estimator raises: start_delay is still None
                    /\ Return(t, Result(t, None, None, Some(ExcText)))
                    /\ UNCHANGED start_delay
               ELSE /\ Goto(t, "p_dur")
                    /\ start_delay' = [start_delay EXCEPT ![t] =
                          Some(EstimateOnPrefix(
                                 Val(primary_audio_start), Val(secondary_audio_start),
                                 Min(Len(Val(primary_audio_start)),
                                     Len(Val(secondary_audio_start)))))]

\* lines 198-214: the two start segments and the start estimate
SimpleStart(t) ==
    /\ pc[t] = "p_start"
    /\ SimpleStartLoaded(t, load_audio(fs[pair[t][1]], segment * sr, 0),
                            load_audio(fs[pair[t][2]], segment * sr, 0))
    /\ UNCHANGED <<run_vars, est_vars, env_vars, aux_vars, cache, ffmpeg_ready, pair, durations>>

\* lines 217-221: the two durations
SimpleDurations(t) ==
    /\ pc[t] = "p_dur"
    /\ LET primary_duration == get_audio_duration(fs[pair[t][1]])
           secondary_duration == get_audio_duration(fs[pair[t][2]])
       IN IF IsNone(primary_duration) \/ IsNone(secondary_duration)
          THEN /\ Return(t, Result(t, start_delay[t], None, Some(ErrDurationSimple)))
               /\ UNCHANGED durations
          ELSE /\ Goto(t, "p_end")
               /\ durations' = [durations EXCEPT ![t] =
                     <<Val(primary_duration), Val(secondary_duration)>>]
    /\ stdout' = stdout
                    \o get_audio_duration_console(pair[t][1],
                                                  get_audio_duration(fs[pair[t][1]]))
                    \o get_audio_duration_console(pair[t][2],
                                                  get_audio_duration(fs[pair[t][2]]))
    /\ UNCHANGED <<run_vars, est_vars, env_vars, aux_vars, cache, ffmpeg_ready, pair,
                   start_delay, acquired>>

\* lines 228-256, given the decoder's two answers
SimpleEndLoaded(t, primary_audio_end, secondary_audio_end) ==
    LET p == pair[t][1]
        s == pair[t][2]
    IN IF IsNone(primary_audio_end)
       THEN /\ Return(t, Result(t, start_delay[t], None,
                                Some(ErrFailedEndOf(PrimaryWord, p))))
            /\ stdout' = stdout \o DirectConsole(p, primary_audio_end)
            /\ acquired' = [acquired EXCEPT ![t] = Append(@, Direct(p, "end", primary_audio_end))]
       ELSE /\ acquired' = [acquired EXCEPT ![t] =
                  @ \o <<Direct(p, "end", primary_audio_end),
                        Direct(s, "end", secondary_audio_end)>>]
            /\ stdout' = stdout \o DirectConsole(s, secondary_audio_end)
            /\ IF IsNone(secondary_audio_end)
               THEN Return(t, Result(t, start_delay[t], None,
                                     Some(ErrFailedEndOf(SecondaryWord, s))))
               ELSE IF InsufficientAudio(Min(Len(Val(primary_audio_end)),
                                             Len(Val(secondary_audio_end))), sr)
               THEN Return(t, Result(t, start_delay[t], None,
                                     Some(ErrInsufficientEnd)))
               ELSE IF fault = "estimate_end"
               THEN \* the estimator raises: end_delay is still None
                    Return(t, Result(t, start_delay[t], None, Some(ExcText)))
               ELSE Return(t, Result(t, start_delay[t],
                        Some(Reconcile(
                               EstimateOnPrefix(
                                   Val(primary_audio_end), Val(secondary_audio_end),
                                   Min(Len(Val(primary_audio_end)),
                                       Len(Val(secondary_audio_end)))),
                               durations[t][1], durations[t][2])),
                        None))

\* lines 224-256: the end segments, the end estimate and its reconciliation
SimpleEnd(t) ==
    /\ pc[t] = "p_end"
    /\ SimpleEndLoaded(t,
          load_audio(fs[pair[t][1]], segment * sr, Max(0, durations[t][1] - segment * sr)),
          load_audio(fs[pair[t][2]], segment * sr, Max(0, durations[t][2] - segment * sr)))
    /\ UNCHANGED <<run_vars, est_vars, env_vars, aux_vars, cache, ffmpeg_ready, pair,
                   start_delay, durations>>

(***************************************************************************)
(* Initial values shared by the specifications.                            *)
(***************************************************************************)
PathV(i) == <<"videos", IF i = 1 THEN "ep1.mkv" ELSE IF i = 2 THEN "ep2.mkv" ELSE "ep3.mkv">>

PathA(i) == <<"audio", IF i = 1 THEN "ep1.wav" ELSE IF i = 2 THEN "ep2.wav" ELSE "ep3.wav">>

\* a decodable file of len samples whose metadata reports its true length
\* (fp: the unit feature vector of its content, scaled by 10)
PlainFile(len) ==
    [lead |-> 0, skip |-> 0, len |-> len, silent |-> FALSE, loud |-> <<0, 0>>,
     decode |-> "ok", dur |-> Some(len), stat |-> Some(<<1, len>>),
     fp |-> Some(<<10, 0>>)]

EstIdle ==
    /\ est_primary = <<>>
    /\ est_secondary = <<>>
    /\ est_k = 0
    /\ est_delay = None

TasksIdle ==
    /\ pc = [t \in Tasks |-> "unused"]
    /\ pair = [t \in Tasks |-> <<PathV(1), PathA(1)>>]
    /\ start_delay = [t \in Tasks |-> None]
    /\ durations = [t \in Tasks |-> <<0, 0>>]
    /\ acquired = [t \in Tasks |-> <<>>]
    /\ result = [t \in Tasks |-> None]

NoRequest ==
    [mode |-> "series", audio_file |-> None, video_folder |-> None,
     video_files |-> <<>>, audio_folder |-> None, match_pattern |-> None]

EmptyDisk == [videos |-> <<>>, audios |-> <<>>, name_pairs |-> <<>>]

FileIdle ==
    /\ cfile = None
    /\ upc = <<>>
    /\ got = <<>>

EmitIdle ==
    /\ lock = None
    /\ epc = <<>>
    /\ wire = <<>>
    /\ pending = <<>>

SideIdle ==
    /\ backends = None
    /\ loaded = None
    /\ win_y = <<>>
    /\ win_out = None
    /\ spc = <<>>
    /\ env_path = <<>>
    /\ bundled = None

AuxIdle ==
    /\ puts = <<>>
    /\ invocation = 1
    /\ FileIdle
    /\ EmitIdle
    /\ SideIdle

RunIdle ==
    /\ request = NoRequest
    /\ disk = EmptyDisk
    /\ main_pc = "idle"
    /\ pairs = <<>>
    /\ processed = 0
    /\ results = <<>>
    /\ current = 0
    /\ completion = <<>>
    /\ early = {}
    /\ yielded = <<>>

(***************************************************************************)
(* SpecEst: the estimator alone, on every small buffer and every shift of  *)
(* it by less than half its length.                                        *)
(***************************************************************************)
EstInit ==
    /\ est_primary \in Buffers
    /\ est_k \in {k \in (0 - MaxLen)..MaxLen : 2 * Abs(k) < Len(est_primary)}
    /\ est_secondary = shift(est_primary, est_k)
    /\ est_delay = None
    /\ sr = SrSmall
    /\ mode = "series"
    /\ fs = (PathV(1) :> PlainFile(1)) @@ (PathA(1) :> PlainFile(1))
    /\ segment = 1
    /\ fault = "none"
    /\ cache = <<>>
    /\ ffmpeg_ready = FALSE
    /\ stdout = <<>>
    /\ AuxIdle
    /\ TasksIdle
    /\ RunIdle

EstCall ==
    /\ est_delay = None
    /\ est_delay' = Some(estimate_sync_offset_crosscorr(est_primary, est_secondary))
    /\ UNCHANGED <<est_primary, est_secondary, est_k>>
    /\ UNCHANGED <<env_vars, aux_vars, cache, ffmpeg_ready, stdout, task_vars, run_vars>>

EstNext == EstCall

SpecEst == EstInit /\ [][EstNext]_vars

(***************************************************************************)
(* SpecPair: one call of a pair analyzer (enhanced_process_pair, or        *)
(* process_pair of either back end) on a pair of files.                    *)
(***************************************************************************)
\* 250 ms in samples (at least one sample)
ShiftLen(rate) == Max(1, rate \div 4)

\* a cut of half a second in samples (at least two samples)
CutLen(rate) == Max(2, rate \div 2)

Segments == {2, WindowCapSec + 1}

\* a file shorter than every segment but long enough to estimate, and one
\* longer than every segment
PrimaryLens(rate) == {rate + 4, (WindowCapSec + 2) * rate}

\* the secondary is the primary under one global shift
ShiftedSecondaries(rate, len) ==
    LET d == ShiftLen(rate)
    IN { PlainFile(len),                                   \* the same track
         [PlainFile(len) EXCEPT !.lead = d],               \* silence prepended, cut to len
         [PlainFile(len + d) EXCEPT !.lead = d],           \* silence prepended
         [PlainFile(len - d) EXCEPT !.skip = d],           \* leading content removed
         [PlainFile(len + CutLen(rate)) EXCEPT !.lead = CutLen(rate)],
         [PlainFile(len - CutLen(rate)) EXCEPT !.skip = CutLen(rate)] }

ShiftFamily(rate) ==
    { [p |-> PlainFile(len), s |-> sec, segment |-> seg, fault |-> "none"] :
        len \in PrimaryLens(rate), sec \in UNION {ShiftedSecondaries(rate, l) : l \in PrimaryLens(rate)},
        seg \in Segments }

\* short files, and files whose metadata reports more than can be decoded
LengthFamily(rate) ==
    LET long == (WindowCapSec + 2) * rate
    IN { [p |-> PlainFile(len), s |-> PlainFile(long), segment |-> seg, fault |-> "none"] :
            len \in {rate \div 2, rate, rate + 1}, seg \in Segments }
       \cup
       { [p |-> PlainFile(long), s |-> PlainFile(len), segment |-> seg, fault |-> "none"] :
            len \in {0, rate, rate + 1}, seg \in Segments }
       \cup
       { [p |-> [PlainFile(long) EXCEPT !.dur = Some(long + seg * rate - keep)],
          s |-> PlainFile(long), segment |-> seg, fault |-> "none"] :
            keep \in {0, rate, rate + 1}, seg \in Segments }
       \cup
       { [p |-> PlainFile(long), s |-> [PlainFile(long) EXCEPT !.silent = TRUE],
          segment |-> seg, fault |-> "none"] : seg \in Segments }

\* decoders, probes and the environment failing
FailureFamily(rate) ==
    LET long == (WindowCapSec + 2) * rate
        ok == PlainFile(long)
        bad == { [ok EXCEPT !.decode = "fail"], [ok EXCEPT !.decode = "fail_seek"],
                 [ok EXCEPT !.decode = "fail_inside"], [ok EXCEPT !.dur = None],
                 [ok EXCEPT !.stat = None] }
    IN { [p |-> f, s |-> ok, segment |-> 2, fault |-> "none"] : f \in bad }
       \cup { [p |-> ok, s |-> f, segment |-> 2, fault |-> "none"] : f \in bad }
       \cup { [p |-> ok, s |-> ok, segment |-> 2, fault |-> x] :
                x \in {"cache_dir", "cache_write", "estimate_start", "estimate_end"} }

\* energy windowing on a track with a loud passage as long as the window:
\* both files last one segment, the secondary is the same track or the track
\* with 250 ms of silence prepended (cut to the same duration)
WindowFamily(rate) ==
    LET seg == WindowCapSec + 1
        len == seg * rate
        track == [PlainFile(len) EXCEPT
                    !.loud = <<rate \div 2 + 1, rate \div 2 + WindowCapSec * rate>>]
    IN { [p |-> track, s |-> sec, segment |-> seg, fault |-> "none"] :
            sec \in {track, [track EXCEPT !.lead = ShiftLen(rate)]} }

\* at a rate whose hop is a whole sample the windower is exercised; at the
\* small rate everything else is
PairScenarios(rate) ==
    IF hop_of(rate) > 0
    THEN WindowFamily(rate)
    ELSE ShiftFamily(rate) \cup LengthFamily(rate) \cup FailureFamily(rate)

\* the analyzer called, and the back end whose texts process_pair uses
Analyzers == {<<"e_start", "series">>, <<"p_start", "series">>, <<"p_start", "movie">>}

PairInit ==
    /\ EstIdle
    /\ sr \in {SrSmall, SrWindow}
    /\ \E sc \in PairScenarios(sr) :
        /\ fs = (PathV(1) :> sc.p) @@ (PathA(1) :> sc.s)
        /\ segment = sc.segment
        /\ fault = sc.fault
    /\ cache = <<>>
    /\ ffmpeg_ready = FALSE
    /\ stdout = <<>>
    /\ \E a \in Analyzers :
        /\ mode = a[2]
        /\ pc = [t \in Tasks |-> IF t = 1 THEN a[1] ELSE "unused"]
    /\ pair = [t \in Tasks |-> <<PathV(1), PathA(1)>>]
    /\ start_delay = [t \in Tasks |-> None]
    /\ durations = [t \in Tasks |-> <<0, 0>>]
    /\ acquired = [t \in Tasks |-> <<>>]
    /\ AuxIdle
    /\ result = [t \in Tasks |-> None]
    /\ RunIdle

\* the program has analyzed the pair with enhanced_process_pair and exited;
\* a later invocation analyzes the same pair with the same segment length.
\* The files are unchanged and the cache directory is what the first left.
SecondInvocation ==
    /\ invocation = 1
    /\ main_pc = "idle"
    /\ ffmpeg_ready
    /\ pc[1] = "returned"
    /\ pc[2] = "unused"
    /\ invocation' = 2
    /\ ffmpeg_ready' = FALSE
    /\ stdout' = <<>>
    /\ pc' = [pc EXCEPT ![2] = "e_start"]
    /\ UNCHANGED <<est_vars, env_vars, puts, file_vars, emit_vars, side_vars, cache, run_vars,
                   pair, start_delay, durations, acquired, result>>

PairNext ==
    \/ SecondInvocation
    \/ \E t \in Tasks :
        \/ EnhancedSetup(t)
        \/ EnhancedStart(t)
        \/ EnhancedDurations(t)
        \/ EnhancedMid(t)
        \/ EnhancedEnd(t)
        \/ SimpleStart(t)
        \/ SimpleDurations(t)
        \/ SimpleEnd(t)

SpecPair == PairInit /\ [][PairNext]_vars

(***************************************************************************)
(* The job pool: run_movie (bridge.py:279-336) and run_series              *)
(* (bridge.py:339-402).  The main thread validates the request, pairs the  *)
(* files, submits one worker per pair to a thread pool, collects the       *)
(* futures as they complete and finally emits `done`.                      *)
(***************************************************************************)
\* the worker threads of the pool (ThreadPoolExecutor's max_workers)
MaxWorkers == 2

\* normalize_result (bridge.py:44-52)
normalize_result(result_tuple) ==
    [videoFile |-> basename(result_tuple.primary_path),
     audioFile |-> basename(result_tuple.secondary_path),
     startDelay |-> result_tuple.start_delay,
     endDelay |-> result_tuple.end_delay,
     error |-> result_tuple.error]

\* list_movie_videos (bridge.py:55-59): the explicit list, else the folder's videos
list_movie_videos(video_folder, explicit_files) ==
    IF explicit_files # <<>> THEN explicit_files ELSE disk.videos

\* list_audio_files (bridge.py:62-64)
list_audio_files(audio_folder) == disk.audios

\* find_matching_files (series_sync.py:262-346): the pairs the filename
\* pairer finds in the two folders
find_matching_files(primary_folder, secondary_folder, custom_pattern) == disk.name_pairs

\* what find_matching_files prints (verbose is False): line 264; for an empty
\* or missing primary folder line 268 or 271, and that is all; line 277; for
\* an empty or missing secondary folder line 281 or 284, and that is all;
\* then line 323 when a pattern pairs files, else line 326 (the warning of
\* line 341 is left out)
find_matching_files_console(primary_folder, secondary_folder) ==
    <<ConsoleLine(<<"Searching for primary files in: ", primary_folder>>)>>
    \o (IF disk.videos = <<>>
        THEN <<ConsoleLine(<<"No files found in the primary folder: ", primary_folder>>)>>
        ELSE <<ConsoleLine(<<"Searching for secondary files in: ", secondary_folder>>)>>
             \o (IF disk.audios = <<>>
                 THEN <<ConsoleLine(<<"No files found in the secondary folder: ",
                                      secondary_folder>>)>>
                 ELSE IF disk.name_pairs # <<>>
                 THEN <<ConsoleLine(<<"Successfully matched ",
                                      ToString(Len(disk.name_pairs)), " file(s)">>)>>
                 ELSE <<ConsoleLine(<<"Could not find matches with standard patterns, ",
                                      "falling back to any numbers.">>)>>))

\* compute_fingerprint (bridge.py:169-181): absent for an absent or empty
\* buffer or a zero feature vector, else the unit feature vector of the content
compute_fingerprint(y, f) ==
    IF IsNone(y) THEN None
    ELSE IF Len(Val(y)) = 0 THEN None
    ELSE f.fp

\* an absent fingerprint taken for a perfect match
fingerprint_similarity_of_absent(fp_a, fp_b) ==
    IF IsNone(fp_a) \/ IsNone(fp_b) THEN 100
    ELSE Val(fp_a)[1] * Val(fp_b)[1] + Val(fp_a)[2] * Val(fp_b)[2]

\* fingerprint_similarity (bridge.py:184-187): the dot product, 100 for 1.0
fingerprint_similarity(fp_a, fp_b) ==
    IF IsNone(fp_a) \/ IsNone(fp_b) THEN 0
    ELSE Val(fp_a)[1] * Val(fp_b)[1] + Val(fp_a)[2] * Val(fp_b)[2]

\* threshold=0.7 (bridge.py:255), on the scale of fingerprint_similarity
Threshold == 70

RECURSIVE FingerprintLoads(_, _, _)
\* the cache after load_audio_segment(path, sr, segment_sec, 0, "fingerprint",
\* window_sec) for the first n paths of files, in order
FingerprintLoads(store, files, n) ==
    IF n = 0 THEN store
    ELSE Bind(FingerprintLoads(store, files, n - 1), LAMBDA before :
            load_audio_segment(before, files[n], fs[files[n]], sr, segment * sr, 0,
                               "fingerprint", window_sec_of(segment)).cache)

\* the fingerprint of one file (bridge.py:250-251, 261-262); what the segment
\* holds does not depend on whether it came from the cache
FingerprintOf(path) ==
    compute_fingerprint(load_audio(fs[path], segment * sr, 0), fs[path])

RECURSIVE BestAudio(_, _, _, _)
\* lines 263-269: the scan over audio_fp.items(), in insertion order, of the
\* first n audio files; <<best_audio, best_score>>, best_score starts at -1.0
BestAudio(video_fp, audio_files, n, unused) ==
    IF n = 0 THEN <<None, -100>>
    ELSE LET before == BestAudio(video_fp, audio_files, n - 1, unused)
             score == fingerprint_similarity(video_fp, FingerprintOf(audio_files[n]))
         IN IF score > before[2] THEN <<Some(audio_files[n]), score>> ELSE before

\* audio_fp is a dict: a path listed twice is one key, at its first position
RECURSIVE DictKeys(_, _)
DictKeys(files, n) ==
    IF n = 0 THEN <<>>
    ELSE LET before == DictKeys(files, n - 1)
         IN IF \E i \in 1..Len(before) : before[i] = files[n]
            THEN before ELSE Append(before, files[n])

RECURSIVE FingerprintConsole(_, _)
\* what build_fingerprint_cache prints for the first n of files: the lines
\* of load_audio for every file that does not decode
FingerprintConsole(files, n) ==
    IF n = 0 THEN <<>>
    ELSE FingerprintConsole(files, n - 1)
         \o DirectConsole(files[n], load_audio(fs[files[n]], segment * sr, 0))

RECURSIVE MatchLoop(_, _, _)
\* lines 260-276 for the first n videos: the pairs and the log records
MatchLoop(video_files, audio_keys, n) ==
    IF n = 0 THEN [pairs |-> <<>>, out |-> <<>>]
    ELSE LET before == MatchLoop(video_files, audio_keys, n - 1)
             video_path == video_files[n]
             best == BestAudio(FingerprintOf(video_path), audio_keys, Len(audio_keys), 0)
             printed == before.out
                          \o DirectConsole(video_path,
                                           load_audio(fs[video_path], segment * sr, 0))
         IN IF ~IsNone(best[1]) /\ best[2] >= Threshold
            THEN [pairs |-> Append(before.pairs, <<video_path, Val(best[1])>>),
                  out |-> emit_log(printed,
                             <<"Fingerprint match: ", basename(video_path), " -> ",
                               basename(Val(best[1]))>>)]
            ELSE [pairs |-> before.pairs,
                  out |-> emit_log(printed,
                             <<"Fingerprint match below threshold for ",
                               basename(video_path)>>)]

\* match_by_fingerprint (bridge.py:255-277): the pairs, the log records and
\* the cache afterwards
match_by_fingerprint(store, video_files, audio_files) ==
    Bind(MatchLoop(video_files, DictKeys(audio_files, Len(audio_files)),
                   Len(video_files)),
         LAMBDA matched :
            [pairs |-> matched.pairs,
             out |-> FingerprintConsole(audio_files, Len(audio_files)) \o matched.out,
             cache |-> FingerprintLoads(
                           FingerprintLoads(store, audio_files, Len(audio_files)),
                           video_files, Len(video_files))])

\* the event records
EvFileStart(path) == [type |-> "file_start", file |-> basename(path)]

EvFileProgress(path, percent) ==
    [type |-> "file_progress", file |-> basename(path), percent |-> percent]

\* (elapsed_ms is wall-clock time, which the model does not keep)
EvFileEnd(path) == [type |-> "file_end", file |-> basename(path)]

\* the progress record with the count taken before the increment
EvProgressBeforeIncrement(n, total, path) ==
    [type |-> "progress", processed |-> n - 1, total |-> total, current |-> basename(path)]

EvProgress(n, total, path) ==
    [type |-> "progress", processed |-> n, total |-> total, current |-> basename(path)]

EvResult(normalized) ==
    [type |-> "result", videoFile |-> normalized.videoFile,
     audioFile |-> normalized.audioFile, startDelay |-> normalized.startDelay,
     endDelay |-> normalized.endDelay, error |-> normalized.error]

EvDone(res) == [type |-> "done", results |-> res]

\* the run ends early with an empty aggregate
DoneEmpty(out) ==
    /\ stdout' = emit(out, EvDone(<<>>))
    /\ main_pc' = "done"
    /\ UNCHANGED <<pairs, pc, pair>>

\* executor.submit for every pair (lines 320, 386): task i is the future of pair i
Submit(out, matched) ==
    /\ stdout' = out
    /\ main_pc' = "submitted"
    /\ pairs' = matched
    /\ pc' = [t \in Tasks |-> IF t <= Len(matched) THEN "queued" ELSE "unused"]
    /\ pair' = [t \in Tasks |-> IF t <= Len(matched) THEN matched[t] ELSE pair[t]]

RECURSIVE MoviePairs(_, _, _)
MoviePairs(video_files, audio_file, n) ==
    IF n = 0 THEN <<>>
    ELSE Append(MoviePairs(video_files, audio_file, n - 1), <<video_files[n], audio_file>>)

\* run_movie up to the submission (lines 280-320)
RunMovieListed(video_files) ==
    IF Len(video_files) = 0
    THEN DoneEmpty(stdout)
    ELSE Submit(emit_log(emit_log(stdout,
                    <<"Movie mode: ", ToString(Len(video_files)), " video files queued.">>),
                    <<"Audio file: ", basename(Val(request.audio_file))>>),
                MoviePairs(video_files, Val(request.audio_file), Len(video_files)))

RunMovie ==
    /\ main_pc = "request"
    /\ request.mode = "movie"
    /\ IF IsNone(request.audio_file)
       THEN DoneEmpty(stdout)
       ELSE IF IsNone(request.video_folder) /\ request.video_files = <<>>
       THEN DoneEmpty(stdout)
       ELSE RunMovieListed(list_movie_videos(request.video_folder, request.video_files))
    /\ UNCHANGED <<est_vars, env_vars, aux_vars, cache, ffmpeg_ready, start_delay, durations,
                   acquired, result, request, disk, processed, results, current,
                   order_vars>>

\* lines 364-368: the log records before the pool
SeriesHeader(out, total) ==
    LET o1 == emit_log(out, <<"Series mode: matched ", ToString(total), " file pairs.">>)
        o2 == emit_log(o1, <<"Video folder: ", Val(request.video_folder)>>)
        o3 == emit_log(o2, <<"Audio folder: ", Val(request.audio_folder)>>)
    IN IF IsNone(request.match_pattern) THEN o3
       ELSE emit_log(o3, <<"Match pattern: ", Val(request.match_pattern)>>)

\* lines 353-362: the fingerprint fallback, given its outcome
RunSeriesFallback(m) ==
    /\ cache' = m.cache
    /\ IF Len(m.pairs) = 0
       THEN DoneEmpty(emit_log(m.out, <<"No matching file pairs found.">>))
       ELSE Submit(SeriesHeader(m.out, Len(m.pairs)), m.pairs)

\* the fingerprint fallback whatever the pairer found
RunSeriesAlwaysByFingerprint(out, matched_pairs) ==
    \E m \in {match_by_fingerprint(cache,
                                    list_movie_videos(request.video_folder, <<>>),
                                    list_audio_files(request.audio_folder))} :
        RunSeriesFallback(
            [m EXCEPT !.out = emit_log(out,
                <<"No matching file pairs found by name. Falling back to fingerprint matching.">>)
                \o @])

\* run_series up to the submission (lines 340-386)
RunSeriesMatched(out, matched_pairs) ==
    IF Len(matched_pairs) = 0
    THEN \E m \in {match_by_fingerprint(cache,
                                         list_movie_videos(request.video_folder, <<>>),
                                         list_audio_files(request.audio_folder))} :
            RunSeriesFallback(
                [m EXCEPT !.out = emit_log(out,
                    <<"No matching file pairs found by name. Falling back to fingerprint matching.">>)
                    \o @])
    ELSE /\ Submit(SeriesHeader(out, Len(matched_pairs)), matched_pairs)
         /\ UNCHANGED cache

RunSeries ==
    /\ main_pc = "request"
    /\ request.mode = "series"
    /\ IF IsNone(request.video_folder) \/ IsNone(request.audio_folder)
       THEN DoneEmpty(stdout) /\ UNCHANGED cache
       ELSE RunSeriesMatched(
                stdout \o find_matching_files_console(Val(request.video_folder),
                                                      Val(request.audio_folder)),
                find_matching_files(request.video_folder, request.audio_folder,
                                    request.match_pattern))
    /\ UNCHANGED <<est_vars, env_vars, aux_vars, ffmpeg_ready, start_delay, durations,
                   acquired, result, request, disk, processed, results, current,
                   order_vars>>

\* a task occupies a worker thread from its start to its return
Running(t) == pc[t] \notin {"unused", "queued", "completed", "collected"}

worker_vars == <<cache, ffmpeg_ready, pair, start_delay, durations, acquired, result>>

\* a free worker thread takes the oldest queued task (the pool's queue is
\* first in, first out) and emits file_start (lines 307, 373)
WorkerFileStart(t) ==
    /\ pc[t] = "queued"
    /\ \A u \in 1..(t - 1) : pc[u] # "queued"
    /\ Cardinality({u \in Tasks : Running(u)}) < MaxWorkers
    /\ stdout' = emit(stdout, EvFileStart(pair[t][1]))
    /\ pc' = [pc EXCEPT ![t] = "w_progress0"]
    /\ UNCHANGED <<est_vars, env_vars, aux_vars, worker_vars, run_vars>>

\* lines 308, 374; then enhanced_process_pair is called
WorkerProgress0(t) ==
    /\ pc[t] = "w_progress0"
    /\ stdout' = emit(stdout, EvFileProgress(pair[t][1], 0))
    /\ pc' = [pc EXCEPT ![t] = "e_start"]
    /\ UNCHANGED <<est_vars, env_vars, aux_vars, worker_vars, run_vars>>

WorkerFallbackAborts(t) ==
    /\ pc[t] = "raised"
    /\ stdout' = emit_log(stdout,
          <<"Enhanced analysis failed for ", basename(pair[t][1]), ": "
          >> \o ExcText)
    /\ pc' = [pc EXCEPT ![t] = "aborted"]
    /\ UNCHANGED <<est_vars, env_vars, aux_vars, worker_vars, run_vars>>

\* the failure is logged and surfaced on the result; process_pair is not run
WorkerFallbackSkipped(t) ==
    /\ pc[t] = "raised"
    /\ stdout' = emit_log(stdout,
          <<"Enhanced analysis failed for ", basename(pair[t][1]), ": "
          >> \o ExcText)
    /\ pc' = [pc EXCEPT ![t] = "returned"]
    /\ result' = [result EXCEPT ![t] = Some(Result(t, None, None, Some(ExcText)))]
    /\ UNCHANGED <<est_vars, env_vars, aux_vars, run_vars, cache, ffmpeg_ready, pair,
                   start_delay, durations, acquired>>

\* lines 312-314, 378-380: enhanced_process_pair raised; the failure is
\* logged and process_pair of the mode's back end is called
WorkerFallback(t) ==
    /\ pc[t] = "raised"
    /\ stdout' = emit_log(stdout,
          <<"Enhanced analysis failed for ", basename(pair[t][1]), ": "
          >> \o ExcText)
    /\ pc' = [pc EXCEPT ![t] = "p_start"]
    /\ UNCHANGED <<est_vars, env_vars, aux_vars, worker_vars, run_vars>>

\* lines 316, 382: the analyzer returned
WorkerProgress100(t) ==
    /\ main_pc # "idle"
    /\ pc[t] = "returned"
    /\ stdout' = emit(stdout, EvFileProgress(pair[t][1], 100))
    /\ pc' = [pc EXCEPT ![t] = "w_end"]
    /\ UNCHANGED <<est_vars, env_vars, aux_vars, worker_vars, run_vars>>

\* lines 317-318, 383-384: file_end, and the worker returns its result: the
\* future of the task is finished
WorkerFileEnd(t) ==
    /\ pc[t] = "w_end"
    /\ stdout' = emit(stdout, EvFileEnd(pair[t][1]))
    /\ pc' = [pc EXCEPT ![t] = "completed"]
    /\ completion' = Append(completion, t)
    /\ UNCHANGED <<est_vars, env_vars, aux_vars, worker_vars, request, disk, main_pc, pairs,
                   processed, results, current, early, yielded>>

\* lines 321, 387: the for statement starts as_completed(futures), which
\* first takes the futures that are finished by now (the workers have been
\* running since their submit)
AsCompletedStart ==
    /\ main_pc = "submitted"
    /\ early' = {t \in Tasks : pc[t] = "completed"}
    /\ main_pc' = "collect"
    /\ UNCHANGED <<est_vars, env_vars, aux_vars, task_vars, cache, ffmpeg_ready, stdout,
                   request, disk, pairs, processed, results, current, completion, yielded>>

\* position of task t in the sequence order (0 when it is not there)
PositionIn(order, t) ==
    IF \E i \in 1..Len(order) : order[i] = t
    THEN CHOOSE i \in 1..Len(order) : order[i] = t
    ELSE 0

\* any finished future is yielded next
YieldsNextAny(t) == TRUE

\* as_completed yields the futures that were finished when it started first,
\* as a set (in no defined order), then the others as they finish
YieldsNext(t) ==
    IF t \in early THEN TRUE
    ELSE /\ \A u \in early : pc[u] = "collected"
         /\ \A u \in Tasks \ early :
               (u # t /\ pc[u] = "completed") =>
                   PositionIn(completion, t) < PositionIn(completion, u)

\* lines 321-333, 387-399: as_completed yields a completed future; the
\* result is normalized and appended, and `progress` is emitted
Collect(t) ==
    /\ main_pc = "collect"
    /\ pc[t] = "completed"
    /\ YieldsNext(t)
    /\ yielded' = Append(yielded, t)
    /\ processed' = processed + 1
    /\ results' = Append(results, normalize_result(Val(result[t])))
    /\ stdout' = emit(stdout, EvProgress(processed + 1, Len(pairs), pair[t][1]))
    /\ pc' = [pc EXCEPT ![t] = "collected"]
    /\ current' = t
    /\ main_pc' = "result"
    /\ UNCHANGED <<est_vars, env_vars, aux_vars, worker_vars, request, disk, pairs,
                   completion, early>>

\* lines 334, 400
EmitResult ==
    /\ main_pc = "result"
    /\ stdout' = emit(stdout, EvResult(results[Len(results)]))
    /\ main_pc' = "collect"
    /\ UNCHANGED <<est_vars, env_vars, aux_vars, task_vars, cache, ffmpeg_ready, request, disk,
                   pairs, processed, results, current, order_vars>>

EmitDoneEarly ==
    /\ main_pc = "collect"
    /\ \A t \in Tasks : pc[t] \in {"unused", "completed", "collected"}
    /\ stdout' = emit(stdout, EvDone(results))
    /\ main_pc' = "done"
    /\ UNCHANGED <<est_vars, env_vars, aux_vars, task_vars, cache, ffmpeg_ready, request, disk,
                   pairs, processed, results, current, order_vars>>

\* lines 336, 402: every future was yielded, the pool is shut down
EmitDone ==
    /\ main_pc = "collect"
    /\ \A t \in Tasks : pc[t] \in {"unused", "collected"}
    /\ stdout' = emit(stdout, EvDone(results))
    /\ main_pc' = "done"
    /\ UNCHANGED <<est_vars, env_vars, aux_vars, task_vars, cache, ffmpeg_ready, request, disk,
                   pairs, processed, results, current, order_vars>>

(***************************************************************************)
(* Spec: one run of the bridge on a request.                               *)
(***************************************************************************)
\* a file of the runs: long enough for both phases at the small rate
RunFile == PlainFile((WindowCapSec + 2) * SrSmall)

MovieRequest(audio_file, video_folder, video_files) ==
    [mode |-> "movie", audio_file |-> audio_file, video_folder |-> video_folder,
     video_files |-> video_files, audio_folder |-> None, match_pattern |-> None]

SeriesRequest(video_folder, audio_folder, match_pattern) ==
    [mode |-> "series", audio_file |-> None, video_folder |-> video_folder,
     video_files |-> <<>>, audio_folder |-> audio_folder,
     match_pattern |-> match_pattern]

Disk(videos, audios, name_pairs) ==
    [videos |-> videos, audios |-> audios, name_pairs |-> name_pairs]

Files(v1, v2, a1, a2) ==
    (PathV(1) :> v1) @@ (PathV(2) :> v2) @@ (PathA(1) :> a1) @@ (PathA(2) :> a2)

BothVideos == <<PathV(1), PathV(2)>>

BothAudios == <<PathA(1), PathA(2)>>

NamePairs == <<<<PathV(1), PathA(1)>>, <<PathV(2), PathA(2)>>>>

RunScenario(req, dsk, files, flt) ==
    [request |-> req, disk |-> dsk, fs |-> files, fault |-> flt]

\* a path of a request's video_files that names no file and ends in
\* "|mtime|size" of the first video
SpelledOutVideo ==
    PathV(1) \o <<"|", ToString(Head(Val(RunFile.stat))), "|",
                  ToString(Head(Tail(Val(RunFile.stat))))>>

\* no such file: it cannot be stat'ed, probed or decoded
MissingFile == [RunFile EXCEPT !.decode = "fail", !.stat = None, !.dur = None]

RunScenarios ==
    LET ok == RunFile
        late == [RunFile EXCEPT !.lead = 1]
        undecodable == [RunFile EXCEPT !.decode = "fail"]
        unprobed == [RunFile EXCEPT !.dur = None]
        other == [RunFile EXCEPT !.fp = Some(<<0, 10>>)]
        near == [RunFile EXCEPT !.fp = Some(<<8, 6>>)]
        all_ok == Files(ok, ok, ok, late)
    IN { \* the early exits of run_movie
         RunScenario(MovieRequest(None, Some("videos"), <<>>),
                     Disk(BothVideos, <<>>, <<>>), all_ok, "none"),
         RunScenario(MovieRequest(Some(PathA(1)), None, <<>>),
                     Disk(<<>>, <<>>, <<>>), all_ok, "none"),
         RunScenario(MovieRequest(Some(PathA(1)), Some("videos"), <<>>),
                     Disk(<<>>, <<>>, <<>>), all_ok, "none"),
         \* movie runs: a folder, an explicit list naming one video twice
         RunScenario(MovieRequest(Some(PathA(2)), Some("videos"), <<>>),
                     Disk(BothVideos, <<>>, <<>>), all_ok, "none"),
         RunScenario(MovieRequest(Some(PathA(1)), None, <<PathV(1), PathV(1)>>),
                     Disk(<<>>, <<>>, <<>>), all_ok, "cache_dir"),
         RunScenario(MovieRequest(Some(PathA(1)), None, BothVideos),
                     Disk(<<>>, <<>>, <<>>), Files(ok, undecodable, ok, ok), "none"),
         \* a movie run whose list names a video and a path that is no file
         RunScenario(MovieRequest(Some(PathA(1)), None, <<PathV(1), SpelledOutVideo>>),
                     Disk(<<>>, <<>>, <<>>),
                     Files(ok, ok, ok, ok) @@ (SpelledOutVideo :> MissingFile), "none"),
         \* the early exit of run_series
         RunScenario(SeriesRequest(Some("videos"), None, None),
                     Disk(BothVideos, BothAudios, NamePairs), all_ok, "none"),
         \* series runs: paired by name
         RunScenario(SeriesRequest(Some("videos"), Some("audio"), Some("pattern")),
                     Disk(BothVideos, BothAudios, NamePairs),
                     Files(ok, ok, late, unprobed), "none"),
         RunScenario(SeriesRequest(Some("videos"), Some("audio"), None),
                     Disk(BothVideos, BothAudios, NamePairs),
                     Files(undecodable, ok, ok, undecodable), "none"),
         RunScenario(SeriesRequest(Some("videos"), Some("audio"), None),
                     Disk(BothVideos, BothAudios, NamePairs), all_ok, "estimate_end"),
         \* series runs: paired by fingerprint, or not at all
         RunScenario(SeriesRequest(Some("videos"), Some("audio"), None),
                     Disk(BothVideos, BothAudios, <<>>),
                     Files(ok, other, near, undecodable), "none"),
         RunScenario(SeriesRequest(Some("videos"), Some("audio"), None),
                     Disk(BothVideos, BothAudios, <<>>),
                     Files(ok, ok, other, other), "none") }

\* the runs checked for termination: an early exit, a movie run whose
\* enhanced analysis raises, a series run in which every pair fails, and a
\* series run that succeeds
FairScenarios ==
    LET ok == RunFile
        undecodable == [RunFile EXCEPT !.decode = "fail"]
    IN { RunScenario(MovieRequest(None, Some("videos"), <<>>),
                     Disk(BothVideos, <<>>, <<>>), Files(ok, ok, ok, ok), "none"),
         RunScenario(MovieRequest(Some(PathA(1)), None, <<PathV(1)>>),
                     Disk(<<>>, <<>>, <<>>), Files(ok, ok, ok, ok), "cache_dir"),
         RunScenario(SeriesRequest(Some("videos"), Some("audio"), None),
                     Disk(BothVideos, BothAudios, NamePairs),
                     Files(undecodable, ok, ok, undecodable), "none"),
         RunScenario(SeriesRequest(Some("videos"), Some("audio"), None),
                     Disk(BothVideos, BothAudios, <<<<PathV(1), PathA(1)>>>>),
                     Files(ok, ok, [ok EXCEPT !.lead = 1], ok), "none") }

RunInit(scenarios) ==
    /\ EstIdle
    /\ sr = SrSmall
    /\ segment = 2
    /\ \E sc \in scenarios :
        /\ request = sc.request
        /\ disk = sc.disk
        /\ fs = sc.fs
        /\ fault = sc.fault
        /\ mode = sc.request.mode
    /\ cache = <<>>
    /\ ffmpeg_ready = FALSE
    /\ stdout = <<>>
    /\ AuxIdle
    /\ TasksIdle
    /\ main_pc = "request"
    /\ pairs = <<>>
    /\ processed = 0
    /\ results = <<>>
    /\ current = 0
    /\ completion = <<>>
    /\ early = {}
    /\ yielded = <<>>

Init == RunInit(RunScenarios)

FairInit == RunInit(FairScenarios)

Analyze(t) ==
    \/ EnhancedSetup(t)
    \/ EnhancedStart(t)
    \/ EnhancedDurations(t)
    \/ EnhancedMid(t)
    \/ EnhancedEnd(t)
    \/ SimpleStart(t)
    \/ SimpleDurations(t)
    \/ SimpleEnd(t)

Next ==
    \/ RunMovie
    \/ RunSeries
    \/ \E t \in Tasks :
        \/ WorkerFileStart(t)
        \/ WorkerProgress0(t)
        \/ Analyze(t)
        \/ WorkerFallback(t)
        \/ WorkerProgress100(t)
        \/ WorkerFileEnd(t)
        \/ Collect(t)
    \/ AsCompletedStart
    \/ EmitResult
    \/ EmitDone

Spec == Init /\ [][Next]_vars

\* every thread that can take a step eventually takes one: the operating
\* system schedules the threads, and every decode and probe call returns
FairSpec == FairInit /\ [][Next]_vars /\ WF_vars(Next)

(***************************************************************************)
(* SpecCache: the segment cache alone.  Arrays are put under the keys of   *)
(* acquisitions that differ from one base acquisition in one field each,   *)
(* and under the key of a path that spells out the fields of another.      *)
(***************************************************************************)
\* the puts of one run of the specification
MaxPuts == 2

\* the arguments of cache_key, and what os.stat answers for the path
Acquisition(path, stat, rate, duration, offset, tag) ==
    [path |-> path, stat |-> stat, rate |-> rate, duration |-> duration,
     offset |-> offset, tag |-> tag]

BaseAcquisition ==
    Acquisition(<<"videos/", "a.mkv">>, Some(<<1, 2>>), SrSmall, 2, 0, "start")

\* a path that cannot be stat'ed (no such file) and ends in "|mtime|size" of
\* the base acquisition ("|" is an ordinary character of a POSIX file name)
SpelledOutPath ==
    BaseAcquisition.path \o <<"|", ToString(1), "|", ToString(2)>>

Acquisitions ==
    { BaseAcquisition,
      [BaseAcquisition EXCEPT !.path = <<"videos/", "b.mkv">>],
      [BaseAcquisition EXCEPT !.stat = Some(<<3, 2>>)],
      [BaseAcquisition EXCEPT !.stat = Some(<<1, 3>>)],
      [BaseAcquisition EXCEPT !.stat = None],
      [BaseAcquisition EXCEPT !.rate = SrWindow],
      [BaseAcquisition EXCEPT !.duration = 3],
      [BaseAcquisition EXCEPT !.offset = 1],
      [BaseAcquisition EXCEPT !.tag = "end"],
      [BaseAcquisition EXCEPT !.path = SpelledOutPath, !.stat = None] }

KeyOf(d) == cache_key(d.path, [stat |-> d.stat], d.rate, d.duration, d.offset, d.tag)

CacheArrays == {<<>>, <<0, 1>>, <<1, 0>>}

\* save_cached_array(cache_key(...), arr) succeeds
CachePut(d, arr) ==
    /\ Len(puts) < MaxPuts
    /\ cache' = save_cached_array(cache, KeyOf(d), arr)
    /\ puts' = Append(puts, <<d, arr>>)
    /\ UNCHANGED <<invocation, file_vars, emit_vars, side_vars>>
    /\ UNCHANGED <<est_vars, env_vars, ffmpeg_ready, stdout, task_vars, run_vars>>

EnvIdle ==
    /\ sr = SrSmall
    /\ mode = "series"
    /\ fs = (PathV(1) :> PlainFile(1)) @@ (PathA(1) :> PlainFile(1))
    /\ segment = 1
    /\ fault = "none"

CacheInit ==
    /\ EstIdle
    /\ EnvIdle
    /\ AuxIdle
    /\ cache = <<>>
    /\ ffmpeg_ready = FALSE
    /\ stdout = <<>>
    /\ TasksIdle
    /\ RunIdle

CacheNext == \E d \in Acquisitions, arr \in CacheArrays : CachePut(d, arr)

SpecCache == CacheInit /\ [][CacheNext]_vars

(***************************************************************************)
(* SpecMatch: match_by_fingerprint (bridge.py:255-277) on its own.  The    *)
(* pairer finds nothing, so run_series hands the video and audio files of  *)
(* the two folders to match_by_fingerprint; their fingerprints are drawn    *)
(* from MatchFiles, the lists from VideoLists and AudioLists.              *)
(***************************************************************************)
\* the files: four with a fingerprint (one of them at the threshold from
\* the first, one opposite to it), one that decodes to a zero feature
\* vector, and one that does not decode
MatchFiles ==
    { RunFile,
      [RunFile EXCEPT !.fp = Some(<<0, 10>>)],
      [RunFile EXCEPT !.fp = Some(<<7, 7>>)],
      [RunFile EXCEPT !.fp = Some(<<-10, 0>>)],
      [RunFile EXCEPT !.fp = None],
      [RunFile EXCEPT !.decode = "fail"] }

\* what the glob of list_movie_videos gives: no path twice
VideoLists == {<<>>, <<PathV(1)>>, <<PathV(1), PathV(2)>>, <<PathV(2), PathV(1)>>}

AudioLists == {<<>>, <<PathA(2)>>, <<PathA(1), PathA(2)>>, <<PathA(2), PathA(1)>>}

MatchScenarios ==
    { RunScenario(SeriesRequest(Some("videos"), Some("audio"), None),
                  Disk(video_files, audio_files, <<>>), Files(v1, v2, a1, a2), "none") :
        video_files \in VideoLists, audio_files \in AudioLists,
        v1 \in MatchFiles, v2 \in MatchFiles, a1 \in MatchFiles, a2 \in MatchFiles }

MatchInit == RunInit(MatchScenarios)

MatchNext == RunSeries

SpecMatch == MatchInit /\ [][MatchNext]_vars

(***************************************************************************)
(* SpecFile: the file of one cache entry under concurrent users.  Several  *)
(* worker threads run load_audio_segment for the same key (in movie mode   *)
(* every worker loads the same reference audio): each looks the key up     *)
(* (bridge.py:109-119) and, on a miss, decodes the segment and writes it   *)
(* with np.savez_compressed straight to <key>.npz (bridge.py:122-129).     *)
(* The file is a sequence of chunks: the local header of the archive       *)
(* member, its compressed data in two chunks, and the central directory.   *)
(* A user writes through its own file position; opening for writing        *)
(* truncates the file, and a write beyond the end leaves a hole of zeros.  *)
(***************************************************************************)
\* the threads that use the entry at once
MaxUsers == 3

Users == 1..MaxUsers

\* what the decoder and the windower give for the key
SegmentBuffer == <<1, 0, 1>>

\* the array user u saves: the key determines the file, the range and the
\* window, so every user saves the same array (bridge.py:161-165)
SavedArrayOfItsOwn(u) == <<u, 0, 1>>

SavedArray(u) == SegmentBuffer

Chunk(kind, part, arr, by) == [kind |-> kind, part |-> part, arr |-> arr, by |-> by]

\* the zeros of a hole
Hole == Chunk("hole", 0, <<>>, 0)

\* the position of the central directory, the last chunk
DirectoryAt == 4

\* the chunk user u writes at position k of the archive of arr (the header and
\* the directory carry the time of writing, which differs between users)
ChunkAt(k, arr, u) ==
    IF k = 1 THEN Chunk("header", 0, <<>>, u)
    ELSE IF k = DirectoryAt THEN Chunk("directory", 0, arr, u)
    ELSE Chunk("data", k - 1, arr, 0)

\* a write of one chunk at position k of a file
WriteAt(file, k, chunk) ==
    [i \in 1..Max(Len(file), k) |->
        IF i = k THEN chunk ELSE IF i <= Len(file) THEN file[i] ELSE Hole]

\* zipfile finds the central directory at the end of the file
HasDirectory(file) ==
    /\ Len(file) = DirectoryAt
    /\ file[DirectoryAt].kind = "directory"

\* the member can be read: its header is where the directory says, and the
\* data decompress to what the directory's checksum was taken of
MemberReads(file, directory) ==
    /\ Len(file) >= DirectoryAt - 1
    /\ file[1].kind = "header"
    /\ \A k \in 2..(DirectoryAt - 1) :
          file[k] = ChunkAt(k, directory.arr, 0)

\* np.load(cache_path)["arr_0"] of a file that does not change meanwhile
Decode(file) ==
    IF HasDirectory(file) /\ MemberReads(file, file[DirectoryAt])
    THEN Some(file[DirectoryAt].arr)
    ELSE None

file_frame == <<est_vars, env_vars, puts, invocation, emit_vars, side_vars, cache,
                ffmpeg_ready, stdout, task_vars, run_vars>>

\* lines 113-116: the file does not exist, or np.load cannot find the
\* directory: absent, and the user goes on to decode (lines 161-164); else the
\* directory is read
LoadOpen(u) ==
    /\ upc[u] = "load"
    /\ IF IsNone(cfile) THEN upc' = [upc EXCEPT ![u] = "decode"]
       ELSE IF HasDirectory(Val(cfile))
       THEN upc' = [upc EXCEPT ![u] = "member"]
       ELSE upc' = [upc EXCEPT ![u] = "decode"]
    /\ got' = [got EXCEPT ![u] =
                  IF ~IsNone(cfile) /\ HasDirectory(Val(cfile))
                  THEN Some(Val(cfile)[DirectoryAt]) ELSE None]
    /\ UNCHANGED cfile
    /\ UNCHANGED file_frame

\* line 117: data["arr_0"] reads the member the directory named; whatever
\* goes wrong raises, and the user gets absent (lines 118-119)
LoadMember(u) ==
    /\ upc[u] = "member"
    /\ IF ~IsNone(cfile) /\ MemberReads(Val(cfile), Val(got[u]))
       THEN /\ got' = [got EXCEPT ![u] = Some(Val(got[u]).arr)]
            /\ upc' = [upc EXCEPT ![u] = "hit"]
       ELSE /\ got' = [got EXCEPT ![u] = None]
            /\ upc' = [upc EXCEPT ![u] = "decode"]
    /\ UNCHANGED cfile
    /\ UNCHANGED file_frame

\* lines 161-164 and the open of line 127: the segment is decoded and
\* windowed, and the file is opened for writing, which empties it
SaveOpen(u) ==
    /\ upc[u] = "decode"
    /\ got' = [got EXCEPT ![u] = Some(SavedArray(u))]
    /\ cfile' = Some(<<>>)
    /\ upc' = [upc EXCEPT ![u] = "write1"]
    /\ UNCHANGED file_frame

WritePosition(label) ==
    IF label = "write1" THEN 1 ELSE IF label = "write2" THEN 2
    ELSE IF label = "write3" THEN 3 ELSE IF label = "rewrite" THEN 1 ELSE DirectoryAt

AfterWrite(label) ==
    IF label = "write1" THEN "write2" ELSE IF label = "write2" THEN "write3"
    ELSE IF label = "write3" THEN "rewrite" ELSE IF label = "rewrite" THEN "close"
    ELSE "saved"

\* line 127: the archive is written chunk by chunk: header, data, the header
\* again (now with the sizes), and on close the directory
SaveWrite(u) ==
    /\ upc[u] \in {"write1", "write2", "write3", "rewrite", "close"}
    /\ cfile' = Some(WriteAt(Val(cfile), WritePosition(upc[u]),
                             ChunkAt(WritePosition(upc[u]), Val(got[u]), u)))
    /\ upc' = [upc EXCEPT ![u] = AfterWrite(upc[u])]
    /\ UNCHANGED got
    /\ UNCHANGED file_frame

FileInit ==
    /\ EstIdle
    /\ EnvIdle
    /\ puts = <<>>
    /\ invocation = 1
    /\ EmitIdle
    /\ SideIdle
    /\ cfile = None
    /\ upc = [u \in Users |-> "load"]
    /\ got = [u \in Users |-> None]
    /\ cache = <<>>
    /\ ffmpeg_ready = FALSE
    /\ stdout = <<>>
    /\ TasksIdle
    /\ RunIdle

FileNext ==
    \E u \in Users :
        \/ LoadOpen(u)
        \/ LoadMember(u)
        \/ SaveOpen(u)
        \/ SaveWrite(u)

SpecFile == FileInit /\ [][FileNext]_vars

(***************************************************************************)
(* SpecEmit: emit at the grain of the bytes (bridge.py:34-37).  The main   *)
(* thread and the pool's workers call emit; a line, json.dumps(payload)    *)
(* and its newline, reaches the buffer of sys.stdout in pieces, and the    *)
(* buffer may spill to the descriptor when it likes.  In the other         *)
(* specifications emit is one step, which is what SpecEmit justifies.      *)
(***************************************************************************)
\* the events each thread emits
MaxEmits == 2

\* the pieces of one line; the last one ends with the newline
LinePieces == 3

\* the threads that emit at once
MaxEmitters == 2

\* thread 0 is the main thread, the others are the workers of the pool
Emitters == 0..(MaxEmitters - 1)

\* piece k of the n-th event of thread th
Piece(th, n, k) == [by |-> th, n |-> n, k |-> k]

\* the lock can be taken by anybody, whoever holds it
LockIgnored(l) == TRUE

\* line 35: `with _emit_lock` enters when nobody holds the lock
LockFree(l) == IsNone(l)

\* where a thread is: its n-th emit, at the label at, k pieces written
At(n, label, k) == [n |-> n, at |-> label, k |-> k]

emit_frame == <<est_vars, env_vars, puts, invocation, file_vars, side_vars, cache,
                ffmpeg_ready, stdout, task_vars, run_vars>>

\* a call of emit by thread th arrives at line 35
EmitCall(th) ==
    /\ epc[th].at = "out"
    /\ epc[th].n < MaxEmits
    /\ epc' = [epc EXCEPT ![th] = At(epc[th].n + 1, "acquire", 0)]
    /\ UNCHANGED <<lock, wire, pending>>
    /\ UNCHANGED emit_frame

\* line 35: the lock is taken
EmitAcquire(th) ==
    /\ epc[th].at = "acquire"
    /\ LockFree(lock)
    /\ lock' = Some(th)
    /\ epc' = [epc EXCEPT ![th].at = "write"]
    /\ UNCHANGED <<wire, pending>>
    /\ UNCHANGED emit_frame

\* line 36: the next piece of the line goes to the buffer, which may spill
EmitWrite(th) ==
    /\ epc[th].at = "write"
    /\ \E spill \in BOOLEAN :
          LET filled == Append(pending, Piece(th, epc[th].n, epc[th].k + 1))
          IN  /\ wire' = IF spill THEN wire \o filled ELSE wire
              /\ pending' = IF spill THEN <<>> ELSE filled
    /\ epc' = [epc EXCEPT ![th] =
                  At(epc[th].n, IF epc[th].k + 1 = LinePieces THEN "flush" ELSE "write",
                     epc[th].k + 1)]
    /\ UNCHANGED lock
    /\ UNCHANGED emit_frame

\* line 37: the buffer is flushed
EmitFlush(th) ==
    /\ epc[th].at = "flush"
    /\ wire' = wire \o pending
    /\ pending' = <<>>
    /\ epc' = [epc EXCEPT ![th].at = "release"]
    /\ UNCHANGED lock
    /\ UNCHANGED emit_frame

\* the end of the with block of line 35: the lock is given back
EmitRelease(th) ==
    /\ epc[th].at = "release"
    /\ lock' = None
    /\ epc' = [epc EXCEPT ![th] = At(epc[th].n, "out", 0)]
    /\ UNCHANGED <<wire, pending>>
    /\ UNCHANGED emit_frame

EmitInit ==
    /\ EstIdle
    /\ EnvIdle
    /\ puts = <<>>
    /\ invocation = 1
    /\ FileIdle
    /\ SideIdle
    /\ lock = None
    /\ epc = [th \in Emitters |-> At(0, "out", 0)]
    /\ wire = <<>>
    /\ pending = <<>>
    /\ cache = <<>>
    /\ ffmpeg_ready = FALSE
    /\ stdout = <<>>
    /\ TasksIdle
    /\ RunIdle

EmitNext ==
    \E th \in Emitters :
        \/ EmitCall(th)
        \/ EmitAcquire(th)
        \/ EmitWrite(th)
        \/ EmitFlush(th)
        \/ EmitRelease(th)

SpecEmit == EmitInit /\ [][EmitNext]_vars

(***************************************************************************)
(* SpecDisplay: display_results of the command-line back ends              *)
(* (series_sync.py:487-518, movie_sync.py:275-306, the same code but for   *)
(* the table's title and two column heads).  A result is the tuple         *)
(* <<primary_path, secondary_path, start_delay, end_delay, err>> that      *)
(* process_pair returns; delays are in tenths of a millisecond here, the   *)
(* precision of the table.  The table is printed on standard output.       *)
(***************************************************************************)
TenthsPerMs == 10

\* the thresholds of lines 507 and 509, in milliseconds
HighBelow == 50

MediumBelow == 500

\* Python's truth value of err: None and the empty string are false
Truthy(err) == ~IsNone(err) /\ Val(err) # <<>>

\* f"{x:+.1f}"
SignedTenths(x) ==
    <<IF x < 0 THEN "-" ELSE "+", ToString(Abs(x) \div TenthsPerMs), ".",
      ToString(Abs(x) % TenthsPerMs)>>

\* the labels with the thresholds counted into the lower band
confidence_inclusive(start, end) ==
    IF ~IsNone(start) /\ ~IsNone(end)
    THEN LET diff == Abs(Val(start) - Val(end))
         IN IF diff <= HighBelow * TenthsPerMs THEN "[green]High[/green]"
            ELSE IF diff <= MediumBelow * TenthsPerMs THEN "[yellow]Medium[/yellow]"
            ELSE "[red]Low[/red]"
    ELSE "-"

\* lines 505-513: the confidence cell of a row that has a start delay
confidence_str(start, end) ==
    IF ~IsNone(start) /\ ~IsNone(end)
    THEN LET diff == Abs(Val(start) - Val(end))
         IN IF diff < HighBelow * TenthsPerMs THEN "[green]High[/green]"
            ELSE IF diff < MediumBelow * TenthsPerMs THEN "[yellow]Medium[/yellow]"
            ELSE "[red]Low[/red]"
    ELSE "-"

\* lines 497-516: the row of one result
TableRow(r) ==
    LET p_name == basename(r[1])
        s_name == basename(r[2])
        start == r[3]
        end == r[4]
        err == r[5]
    IN IF Truthy(err)
       THEN <<p_name, s_name, <<"-">>, <<"-">>, "-", <<"[red]ERROR: ">> \o Val(err) \o <<"[/red]">>>>
       ELSE IF ~IsNone(start)
       THEN <<p_name, s_name, SignedTenths(Val(start)),
              IF ~IsNone(end) THEN SignedTenths(Val(end)) ELSE <<"N/A">>,
              confidence_str(start, end), <<"[green]OK[/green]">>>>
       ELSE <<p_name, s_name, <<"-">>, <<"-">>, "-", <<"[red]Failed[/red]">>>>

\* the order of the primary paths of the model as strings
PathKey(path) == IF path = PathV(1) THEN 1 ELSE IF path = PathV(2) THEN 2 ELSE 3

RECURSIVE sorted(_, _)
\* sorted(results, key=lambda x: x[0]) of the first n results: stable
sorted(rs, n) ==
    IF n = 0 THEN <<>>
    ELSE LET before == sorted(rs, n - 1)
             k == Cardinality({i \in 1..Len(before) :
                                  PathKey(before[i][1]) <= PathKey(rs[n][1])})
         IN SubSeq(before, 1, k) \o <<rs[n]>> \o SubSeq(before, k + 1, Len(before))

\* display_results: the table handed to console.print
display_results(rs) ==
    LET ordered == sorted(rs, Len(rs))
    IN [type |-> "table", rows |-> [i \in 1..Len(ordered) |-> TableRow(ordered[i])]]

\* the action: the script's main prints the table of its results once
DisplayResults ==
    /\ main_pc = "idle"
    /\ main_pc' = "done"
    /\ stdout' = Append(stdout, display_results(results))
    /\ UNCHANGED <<est_vars, env_vars, aux_vars, cache, ffmpeg_ready, task_vars,
                   request, disk, pairs, processed, results, current, order_vars>>

MaxRows == 2

\* the delays of the results, in tenths of a millisecond: around the two
\* thresholds from either side of a start delay of 0 or of a tenth
DisplayStarts == {None, Some(0), Some(1)}

DisplayEnds ==
    {None, Some(0), Some(-HighBelow * TenthsPerMs)}
      \cup {Some(HighBelow * TenthsPerMs + d) : d \in -1..1}
      \cup {Some(MediumBelow * TenthsPerMs + d) : d \in -1..1}

Outcomes ==
    {<<s, e, None>> : s \in DisplayStarts, e \in DisplayEnds}
      \cup {<<se[1], se[2], Some(<<"Failed to load end of primary: ", "ep1.mkv">>)>> :
               se \in {<<None, None>>, <<Some(0), None>>, <<Some(0), Some(0)>>}}
      \cup {<<None, None, Some(<<>>)>>, <<Some(0), Some(0), Some(<<>>)>>,
            <<Some(0), Some(MediumBelow * TenthsPerMs), Some(<<>>)>>}

DisplayRows ==
    {<<PathV(i), PathA(i)>> \o o : i \in 1..2, o \in Outcomes}

DisplayInit ==
    /\ EstIdle
    /\ EnvIdle
    /\ AuxIdle
    /\ cache = <<>>
    /\ ffmpeg_ready = FALSE
    /\ stdout = <<>>
    /\ TasksIdle
    /\ request = NoRequest
    /\ disk = EmptyDisk
    /\ main_pc = "idle"
    /\ pairs = <<>>
    /\ processed = 0
    /\ results \in UNION {[1..n -> DisplayRows] : n \in 0..MaxRows}
    /\ current = 0
    /\ completion = <<>>
    /\ early = {}
    /\ yielded = <<>>

DisplayNext == DisplayResults

SpecDisplay == DisplayInit /\ [][DisplayNext]_vars

(***************************************************************************)
(* SpecLoad: one call of load_audio (series_sync.py:32-101,                *)
(* movie_sync.py:28-85; the two differ in the words of the warning) at the *)
(* grain of its decoders.  `backends` says what each decoder does in the   *)
(* call: soundfile and librosa read the file or raise; Popen finds no      *)
(* ffmpeg, fails otherwise, or runs ffmpeg to exit code zero or not; the   *)
(* error output of ffmpeg names a missing video stream or not; the bytes   *)
(* of ffmpeg are whole samples or not; the retry with librosa reads the    *)
(* file or raises.  An outcome is what a block of the code comes to: it    *)
(* returns a value, raises an exception, or falls through.                 *)
(***************************************************************************)
Returns(value, lines) == [kind |-> "return", value |-> value, exc |-> "", lines |-> lines]

Raises(exc, lines) == [kind |-> "raise", value |-> "", exc |-> exc, lines |-> lines]

FallsThrough(lines) == [kind |-> "fall", value |-> "", exc |-> "", lines |-> lines]

\* the exception classes of the model; all derive from Exception, and
\* FileNotFoundError derives from OSError
ExceptionClasses == {"FileNotFoundError", "OSError", "ValueError", "RuntimeError"}

\* `except cls` catches exc
Catches(cls, exc) ==
    \/ cls = exc
    \/ cls = "Exception" /\ exc \in ExceptionClasses
    \/ cls = "OSError" /\ exc = "FileNotFoundError"

\* lines 42-67: the native decoders, tried for a file that is not a video
NativeDecoders(b, name) ==
    IF b.soundfile = "ok" THEN Returns("buffer", <<>>)
    ELSE \* except Exception (line 58)
         IF b.librosa = "ok" THEN Returns("buffer", <<>>)
         ELSE \* except Exception as e_librosa (line 65)
              FallsThrough(<<ConsoleLine(<<"Warning: Direct load and librosa failed for ",
                                           name, ". Trying FFmpeg.">>)>>)

\* lines 70-94: the body of the try statement of line 69
TranscoderBody(b, name) ==
    IF b.ffmpeg = "missing" THEN Raises("FileNotFoundError", <<>>)
    ELSE IF b.ffmpeg = "oserror" THEN Raises("OSError", <<>>)
    ELSE IF b.ffmpeg = "nonzero"
    THEN IF b.stderr_video
         THEN \* lines 87-88: the retry without the transcoder
              IF b.retry = "ok" THEN Returns("buffer", <<>>) ELSE Raises(b.retry, <<>>)
         ELSE Returns("none", <<ConsoleLine(<<"Error: FFmpeg failed for ", name, ".">>)>>)
    ELSE \* line 94
         IF b.frombuffer = "ok" THEN Returns("buffer", <<>>) ELSE Raises("ValueError", <<>>)

\* the try statement of line 69 with no except clause
TranscoderUnguarded(b, name) == TranscoderBody(b, name)

\* lines 69-101: the body under the handlers of lines 96 and 99
Transcoder(b, name) ==
    Bind(TranscoderBody(b, name), LAMBDA r :
        IF r.kind # "raise" THEN r
        ELSE IF Catches("FileNotFoundError", r.exc)
        THEN Returns("none", r.lines \o <<ConsoleLine(<<"Error: FFmpeg not found. Please ensure it's in your system's PATH.">>)>>)
        ELSE IF Catches("Exception", r.exc)
        THEN Returns("none", r.lines \o <<ConsoleLine(<<"An unexpected error occurred in load_audio for ", name>>)>>)
        ELSE r)

\* load_audio, given what the decoders do: what the call comes to
load_audio_call(b, name) ==
    IF ~b.is_video
    THEN Bind(NativeDecoders(b, name), LAMBDA n :
            IF n.kind = "fall"
            THEN Bind(Transcoder(b, name), LAMBDA r : [r EXCEPT !.lines = n.lines \o @])
            ELSE n)
    ELSE Transcoder(b, name)

\* every combination of what the decoders can do
Backends ==
    [is_video : BOOLEAN, soundfile : {"ok", "raise"}, librosa : {"ok", "raise"},
     ffmpeg : {"missing", "oserror", "zero", "nonzero"}, stderr_video : BOOLEAN,
     frombuffer : {"ok", "raise"}, retry : {"ok"} \cup ExceptionClasses]

\* the action: the call is made; its lines go to standard output
LoadAudio ==
    /\ IsNone(loaded)
    /\ \E r \in {load_audio_call(Val(backends), "ep1.mkv")} :
        /\ loaded' = Some([kind |-> r.kind, value |-> r.value, exc |-> r.exc])
        /\ stdout' = stdout \o r.lines
    /\ UNCHANGED <<est_vars, env_vars, puts, invocation, file_vars, emit_vars, backends,
                   window_vars, setup_vars, cache, ffmpeg_ready, task_vars, run_vars>>

LoadInit ==
    /\ EstIdle
    /\ EnvIdle
    /\ puts = <<>>
    /\ invocation = 1
    /\ FileIdle
    /\ EmitIdle
    /\ backends \in {Some(b) : b \in Backends}
    /\ loaded = None
    /\ win_y = <<>>
    /\ win_out = None
    /\ spc = <<>>
    /\ env_path = <<>>
    /\ bundled = None
    /\ cache = <<>>
    /\ ffmpeg_ready = FALSE
    /\ stdout = <<>>
    /\ TasksIdle
    /\ RunIdle

LoadNext == LoadAudio

SpecLoad == LoadInit /\ [][LoadNext]_vars

(***************************************************************************)
(* SpecWindow: select_high_energy_window (bridge.py:132-153) on its own,   *)
(* at a rate whose hop is two samples.  The buffers are quiet with one     *)
(* loud passage, anywhere from the first sample to the last; they are a    *)
(* sample shorter than the window, as long, and up to a few hops longer.   *)
(***************************************************************************)
WindowRate == 2 * SrWindow

\* the lengths of the buffers, for a window of window_len samples
WindowLens(window_len, hop) ==
    {window_len - 1, window_len, window_len + 1, window_len + hop + 1, window_len + 3 * hop}

\* n samples, quiet but for `width` loud samples after the first a
Passage(n, a, width) ==
    [i \in 1..n |-> IF i > a /\ i <= a + width THEN LoudGain ELSE 1]

WindowBuffers(rate, window_sec) ==
    {Passage(n, a, width) :
        n \in WindowLens(Max(1, window_sec * rate), hop_of(rate)),
        a \in 0..(Max(1, window_sec * rate) + 3 * hop_of(rate)),
        width \in {1, 2 * hop_of(rate)}}

\* the action: the call
SelectWindow ==
    /\ IsNone(win_out)
    /\ win_out' = Some(select_high_energy_window(win_y, sr, window_sec_of(segment)))
    /\ UNCHANGED <<est_vars, env_vars, puts, invocation, file_vars, emit_vars, load_vars,
                   win_y, setup_vars, cache, ffmpeg_ready, stdout, task_vars, run_vars>>

WindowInit ==
    /\ EstIdle
    /\ sr = WindowRate
    /\ mode = "series"
    /\ fs = (PathV(1) :> PlainFile(1)) @@ (PathA(1) :> PlainFile(1))
    /\ segment = 1
    /\ fault = "none"
    /\ puts = <<>>
    /\ invocation = 1
    /\ FileIdle
    /\ EmitIdle
    /\ backends = None
    /\ loaded = None
    /\ win_y \in WindowBuffers(WindowRate, window_sec_of(1))
    /\ win_out = None
    /\ spc = <<>>
    /\ env_path = <<>>
    /\ bundled = None
    /\ cache = <<>>
    /\ ffmpeg_ready = FALSE
    /\ stdout = <<>>
    /\ TasksIdle
    /\ RunIdle

WindowNext == SelectWindow

SpecWindow == WindowInit /\ [][WindowNext]_vars

(***************************************************************************)
(* SpecSetup: setup_ffmpeg_env (bridge.py:67-87) at the grain of its       *)
(* statements, called by the threads of the pool at the start of           *)
(* enhanced_process_pair (line 191).  The flag is read at line 69 and set  *)
(* at line 83 or 87; no lock is held in between (emit_log takes the emit   *)
(* lock for its own write only).  `bundled` is the set of candidate        *)
(* folders, by their place in the list of lines 72-76, that hold both      *)
(* ffmpeg.exe and ffprobe.exe.                                             *)
(***************************************************************************)
MaxCallers == 3

Callers == 1..MaxCallers

\* lines 72-76
Candidates == <<"BASE_DIR/resources/ffmpeg", "ROOT_DIR/resources/ffmpeg", "ROOT_DIR/ffmpeg">>

\* lines 77-80: the first candidate folder that holds both programs (0: none)
FirstBundled ==
    IF bundled = {} THEN 0
    ELSE CHOOSE c \in bundled : \A d \in bundled : c <= d

setup_frame == <<est_vars, env_vars, puts, invocation, file_vars, emit_vars, load_vars,
                 window_vars, bundled, cache, task_vars, run_vars>>

\* lines 69-80: the flag is read; if it is not set the candidates are probed
SetupRead(th) ==
    /\ spc[th] = "call"
    /\ spc' = [spc EXCEPT ![th] =
                  IF ffmpeg_ready THEN "done"
                  ELSE IF FirstBundled > 0 THEN "prepend" ELSE "log_path"]
    /\ UNCHANGED <<env_path, ffmpeg_ready, stdout, setup_frame>>

\* line 81: os.environ["PATH"] = folder + os.pathsep + os.environ.get("PATH", "")
SetupPrepend(th) ==
    /\ spc[th] = "prepend"
    /\ env_path' = <<Candidates[FirstBundled]>> \o env_path
    /\ spc' = [spc EXCEPT ![th] = "log_bundled"]
    /\ UNCHANGED <<ffmpeg_ready, stdout, setup_frame>>

\* line 82
SetupLogBundled(th) ==
    /\ spc[th] = "log_bundled"
    /\ stdout' = emit_log(stdout, <<"Using bundled ffmpeg from ", Candidates[FirstBundled]>>)
    /\ spc' = [spc EXCEPT ![th] = "set"]
    /\ UNCHANGED <<env_path, ffmpeg_ready, setup_frame>>

\* line 86
SetupLogPath(th) ==
    /\ spc[th] = "log_path"
    /\ stdout' = emit_log(stdout, <<"Using ffmpeg from PATH (bundled ffmpeg not found).">>)
    /\ spc' = [spc EXCEPT ![th] = "set"]
    /\ UNCHANGED <<env_path, ffmpeg_ready, setup_frame>>

\* lines 83-84, 87
SetupSet(th) ==
    /\ spc[th] = "set"
    /\ ffmpeg_ready' = TRUE
    /\ spc' = [spc EXCEPT ![th] = "done"]
    /\ UNCHANGED <<env_path, stdout, setup_frame>>

\* the thread analyzes its next pair: line 191 again
SetupAgain(th) ==
    /\ spc[th] = "done"
    /\ spc' = [spc EXCEPT ![th] = "call"]
    /\ UNCHANGED <<env_path, ffmpeg_ready, stdout, setup_frame>>

SetupInit ==
    /\ EstIdle
    /\ EnvIdle
    /\ puts = <<>>
    /\ invocation = 1
    /\ FileIdle
    /\ EmitIdle
    /\ backends = None
    /\ loaded = None
    /\ win_y = <<>>
    /\ win_out = None
    /\ spc = [th \in Callers |-> "call"]
    /\ env_path = <<>>
    /\ bundled \in SUBSET (1..Len(Candidates))
    /\ cache = <<>>
    /\ ffmpeg_ready = FALSE
    /\ stdout = <<>>
    /\ TasksIdle
    /\ RunIdle

SetupNext ==
    \E th \in Callers :
        \/ SetupRead(th)
        \/ SetupPrepend(th)
        \/ SetupLogBundled(th)
        \/ SetupLogPath(th)
        \/ SetupSet(th)
        \/ SetupAgain(th)

SpecSetup == SetupInit /\ [][SetupNext]_vars

(***************************************************************************)
(* Properties.                                                             *)
(***************************************************************************)
\* the positions of the `done` events on standard output
DoneEvents == {i \in 1..Len(stdout) : stdout[i].type = "done"}

NamesOf(p) == <<basename(p[1]), basename(p[2])>>

NamesIn(r) == <<r.videoFile, r.audioFile>>

\* C1: the results list carried by `done` has as many entries as pairs were
\* submitted, and every submitted pair appears in it as often as it was
\* submitted (once per submission), whatever the order of completion
C1_OneResultPerPair ==
    \A i \in DoneEvents :
        /\ Len(stdout[i].results) = Len(pairs)
        /\ \A k \in 1..Len(pairs) :
              Cardinality({j \in 1..Len(stdout[i].results) :
                              NamesIn(stdout[i].results[j]) = NamesOf(pairs[k])})
                = Cardinality({j \in 1..Len(pairs) : NamesOf(pairs[j]) = NamesOf(pairs[k])})

\* two different pairs were submitted and completed in the reverse order
C1_Witness ==
    \E i \in DoneEvents :
        /\ Len(pairs) = 2
        /\ Len(stdout[i].results) = 2
        /\ NamesOf(pairs[1]) # NamesOf(pairs[2])
        /\ NamesIn(stdout[i].results[1]) = NamesOf(pairs[2])

TextNonEmpty(text) == \E i \in 1..Len(text) : text[i] # ""

C4_AsClaimed ==
    (~IsNone(est_delay) /\ ~IsConstant(est_primary)) =>
        /\ Abs(Val(est_delay) - est_k * 1000) <= SamplePeriod
        /\ (Val(est_delay) > 0) <=> (est_k > 0)

\* C5: the estimate of (b, b) is exactly 0 for every non-constant b; for a
\* constant b (all zero included) the correlation is all zero, its first
\* maximum is index 0, and the estimate is -(len(b) - 1) sample periods
C5_IdenticalBuffers ==
    (~IsNone(est_delay) /\ est_k = 0) =>
        Val(est_delay) = IF IsConstant(est_primary)
                         THEN (0 - (Len(est_primary) - 1)) * 1000
                         ELSE 0

\* the estimator was given a constant buffer of several samples twice
C5_Witness ==
    /\ ~IsNone(est_delay)
    /\ est_k = 0
    /\ IsConstant(est_primary)
    /\ Len(est_primary) >= 2

\* C5 (as stated): the estimate of (b, b) is exactly 0 for every b
C5_AsClaimed == (~IsNone(est_delay) /\ est_k = 0) => Val(est_delay) = 0

\* in a specification of one analyzer call, enhanced_process_pair is the
\* analyzer that was called exactly if setup_ffmpeg_env has run (in this
\* invocation or, for there to be a second one, in the first)
CalledEnhanced == ffmpeg_ready \/ invocation = 2

\* a file that decodes, whose metadata reports its length
Sound(f) == f.decode = "ok" /\ ~f.silent /\ f.dur = Some(f.len)

\* the secondary of task t is its primary under one global shift, with the
\* duration that implies
GlobalShift(t) ==
    LET p == fs[pair[t][1]]
        s == fs[pair[t][2]]
    IN /\ Sound(p) /\ Sound(s)
       /\ p.lead = 0 /\ p.skip = 0
       /\ s.lead + s.skip > 0
       /\ s.len = p.len + s.lead - s.skip

\* how much later the secondary's content is, as a numerator over sr
TrueOffset(t) == (fs[pair[t][2]].lead - fs[pair[t][2]].skip) * 1000

BothWithin(r, target, tolerance) ==
    /\ Abs(Val(r.start_delay) - target) <= tolerance
    /\ Abs(Val(r.end_delay) - target) <= tolerance

\* C6 (as stated, and read with either sign convention): for a secondary that
\* is the primary under one global shift, process_pair returns a start and an
\* end delay that both equal the true offset within one sample period
C6_AsClaimed ==
    \A t \in Tasks :
        (~IsNone(result[t]) /\ ~CalledEnhanced /\ fault = "none" /\ GlobalShift(t)
            /\ IsNone(Val(result[t]).error)) =>
            \/ BothWithin(Val(result[t]), TrueOffset(t), SamplePeriod)
            \/ BothWithin(Val(result[t]), 0 - TrueOffset(t), SamplePeriod)

\* the secondary of task t is the last part of its primary, and both files
\* are longer than a segment
LastPart(t) ==
    /\ GlobalShift(t)
    /\ fs[pair[t][2]].lead = 0
    /\ fs[pair[t][2]].len >= segment * sr

\* C7: when the secondary is the last part of the primary the end segments
\* are the same audio, the raw end estimate is 0 and the returned end delay is
\* the correction itself, (D_p - D_s) * 1000 ms (+10000 ms for 600 s and
\* 590 s), by either analyzer
C7_EndDelayIsTheCorrection ==
    \A t \in Tasks :
        (~IsNone(result[t]) /\ fault = "none" /\ LastPart(t)) =>
            /\ IsNone(Val(result[t]).error)
            /\ Val(result[t]).end_delay
                  = Some((fs[pair[t][1]].len - fs[pair[t][2]].len) * 1000)

\* an analyzer returned for a secondary that lacks the first two or more
\* samples of the primary
C7_Witness ==
    \E t \in Tasks :
        /\ ~IsNone(result[t])
        /\ fault = "none"
        /\ LastPart(t)
        /\ fs[pair[t][2]].skip >= 2
        /\ Val(result[t]).end_delay = Some(fs[pair[t][2]].skip * 1000)

\* C7 (as stated): in that case the end delay is approximately 0 (within one
\* sample period)
C7_AsClaimed ==
    \A t \in Tasks :
        (~IsNone(result[t]) /\ fault = "none" /\ LastPart(t)) =>
            /\ ~IsNone(Val(result[t]).end_delay)
            /\ Abs(Val(Val(result[t]).end_delay)) <= SamplePeriod

\* energy windowing is active for the start and end segments of task t: the
\* windower has a whole-sample hop and both files are longer than the window
WindowingActive(t) ==
    /\ hop_of(sr) > 0
    /\ fs[pair[t][1]].len > window_sec_of(segment) * sr
    /\ fs[pair[t][2]].len > window_sec_of(segment) * sr

\* the secondary is the primary with 250 ms of silence prepended, cut to the
\* primary's duration
SilencePrepended(t) ==
    LET p == fs[pair[t][1]]
        s == fs[pair[t][2]]
    IN /\ Sound(p) /\ Sound(s)
       /\ p.lead = 0 /\ p.skip = 0 /\ s.skip = 0
       /\ s.lead = ShiftLen(sr)
       /\ s.len = p.len

\* C8 (as stated, and read with either sign convention): with energy windowing
\* active and 250 ms of silence prepended to the secondary,
\* enhanced_process_pair returns start and end delays of 250 ms within 0.2 ms
C8_AsClaimed ==
    \A t \in Tasks :
        (~IsNone(result[t]) /\ CalledEnhanced /\ fault = "none"
            /\ WindowingActive(t) /\ SilencePrepended(t)) =>
            /\ IsNone(Val(result[t]).error)
            /\ \/ BothWithin(Val(result[t]), ShiftLen(sr) * 1000, (2 * sr) \div 10)
               \/ BothWithin(Val(result[t]), 0 - ShiftLen(sr) * 1000, (2 * sr) \div 10)

\* what the decoder gives for the start and the end segment of a file (the
\* energy window of the enhanced analyzer is longer than sr samples, so a
\* windowed segment has at most sr samples exactly if the decoded one has)
StartSegment(path) == load_audio(fs[path], segment * sr, 0)

EndSegment(path) ==
    load_audio(fs[path], segment * sr, Max(0, Val(fs[path].dur) - segment * sr))

BothLoad(a, b) == ~IsNone(a) /\ ~IsNone(b)

ShorterLen(a, b) == Min(Len(Val(a)), Len(Val(b)))

StartShort(t) ==
    /\ BothLoad(StartSegment(pair[t][1]), StartSegment(pair[t][2]))
    /\ ShorterLen(StartSegment(pair[t][1]), StartSegment(pair[t][2])) <= sr

StartLong(t) ==
    /\ BothLoad(StartSegment(pair[t][1]), StartSegment(pair[t][2]))
    /\ ShorterLen(StartSegment(pair[t][1]), StartSegment(pair[t][2])) > sr

DurationsKnown(t) == ~IsNone(fs[pair[t][1]].dur) /\ ~IsNone(fs[pair[t][2]].dur)

EndShort(t) ==
    /\ DurationsKnown(t)
    /\ BothLoad(EndSegment(pair[t][1]), EndSegment(pair[t][2]))
    /\ ShorterLen(EndSegment(pair[t][1]), EndSegment(pair[t][2])) <= sr

OnlyStartAcquired(t) == \A i \in 1..Len(acquired[t]) : acquired[t][i].tag = "start"

C10_DurationAbsent ==
    \A t \in Tasks :
        (~IsNone(result[t]) /\ fault = "none" /\ StartLong(t) /\ ~DurationsKnown(t)) =>
            /\ Val(result[t]).error
                  = Some(IF CalledEnhanced
                         THEN <<"Could not get duration for analysis.">>
                         ELSE <<"Could not get duration for end analysis.">>)
            /\ ~IsNone(Val(result[t]).start_delay)
            /\ IsNone(Val(result[t]).end_delay)
            /\ OnlyStartAcquired(t)

\* enhanced_process_pair returned for a pair with an absent duration
C10_Witness ==
    \E t \in Tasks :
        /\ ~IsNone(result[t])
        /\ CalledEnhanced
        /\ StartLong(t)
        /\ ~DurationsKnown(t)
        /\ ~IsNone(Val(result[t]).start_delay)
        /\ Val(result[t]).error = Some(<<"Could not get duration for analysis.">>)

\* C10 (as stated): both analyzers report "Could not get duration for end
\* analysis."
C10_AsClaimed ==
    \A t \in Tasks :
        (~IsNone(result[t]) /\ fault = "none" /\ StartLong(t) /\ ~DurationsKnown(t)) =>
            /\ Val(result[t]).error = Some(<<"Could not get duration for end analysis.">>)
            /\ ~IsNone(Val(result[t]).start_delay)
            /\ IsNone(Val(result[t]).end_delay)
            /\ OnlyStartAcquired(t)


RECURSIVE LastPut(_, _)
\* the array of the last of the first n puts made for acquisition d
LastPut(d, n) ==
    IF n = 0 THEN None
    ELSE IF Head(puts[n]) = d THEN Some(Head(Tail(puts[n])))
    ELSE LastPut(d, n - 1)

\* C11 (as stated): for every acquisition, load_cached_array under its key
\* returns what was last saved for that acquisition (nothing, if nothing was):
\* a save under the key of an acquisition that differs in path, mtime, size,
\* sample rate, duration, offset or tag changes nothing for it
C11_AsClaimed ==
    \A d \in Acquisitions :
        load_cached_array(cache, KeyOf(d)) = LastPut(d, Len(puts))

\* the analysis of task t returned both delays
BothDelays(t) ==
    /\ ~IsNone(result[t])
    /\ ~IsNone(Val(result[t]).start_delay)
    /\ ~IsNone(Val(result[t]).end_delay)

\* every segment task t has acquired so far came from the cache: no call of
\* the decoder was made
FromCache(t) == \A i \in 1..Len(acquired[t]) : acquired[t][i].from = "cache"

\* every segment task t has acquired was there (the decoder gave a buffer)
AllLoaded(t) == \A i \in 1..Len(acquired[t]) : acquired[t][i].loaded

\* C12: if the first analysis returned both delays, each of its six segments
\* (the mid ones included) was decoded and every cache write succeeded, then
\* the second analysis of the same pair, with the files unchanged, takes all
\* six segments from the cache, calls the decoder never and returns the same
\* result
C12_CacheReuse ==
    (invocation = 2 /\ BothDelays(1) /\ AllLoaded(1) /\ fault # "cache_write") =>
        /\ FromCache(2)
        /\ ~IsNone(result[2]) => (Len(acquired[2]) = 6 /\ result[2] = result[1])

\* the second analysis has returned, with six segments from the cache
C12_Witness ==
    /\ invocation = 2
    /\ BothDelays(1)
    /\ ~IsNone(result[2])
    /\ Len(acquired[2]) = 6
    /\ FromCache(2)

\* C12 (as stated): if the first analysis returned both delays, the second
\* takes every segment from the cache
C12_AsClaimed == (invocation = 2 /\ BothDelays(1)) => FromCache(2)

\* C13 (as stated): in a later invocation no segment of a file whose os.stat
\* fails (its key has no mtime and no size) is returned from the cache
C13_AsClaimed ==
    invocation = 2 =>
        \A i \in 1..Len(acquired[2]) :
            acquired[2][i].from = "cache" => ~IsNone(fs[acquired[2][i].path].stat)

\* load_audio_segment of user u has returned
Returned(u) == upc[u] \in {"hit", "saved"}

\* C14: whatever the interleaving of the users of one key, a lookup that
\* finds the entry returns exactly the buffer that was put for the key (a
\* lookup during a write returns absent, and the user decodes for itself), and
\* once every user has returned the file holds that buffer
C14_EntryIsTheBufferOrAbsent ==
    /\ \A u \in Users : upc[u] = "hit" => got[u] = Some(SegmentBuffer)
    /\ (\A u \in Users : Returned(u)) =>
          /\ ~IsNone(cfile)
          /\ Decode(Val(cfile)) = Some(SegmentBuffer)

\* one user found the entry whole, and another, having seen the directory,
\* lost the member to a third user's write and decoded for itself
C14_Witness ==
    /\ \A u \in Users : Returned(u)
    /\ \E u \in Users : upc[u] = "hit"
    /\ \E u, v \in Users :
          /\ u # v
          /\ upc[u] = "saved" /\ upc[v] = "saved"
          /\ Val(cfile)[1].by # Val(cfile)[DirectoryAt].by

\* the bytes written so far, in the order they reach standard output
Written == wire \o pending

\* C15: the write of an event's line and its flush happen while the thread
\* holds the emit lock (so nothing is left unflushed when the lock is free),
\* and on standard output the pieces of a line follow one another with no
\* piece of another event in between
C15_LinesNotInterleaved ==
    /\ \A th \in Emitters :
          epc[th].at \in {"write", "flush", "release"} => lock = Some(th)
    /\ IsNone(lock) => pending = <<>>
    /\ \A i \in 1..Len(Written) :
          /\ Written[i].k > 1 =>
                /\ i > 1
                /\ Written[i - 1] = Piece(Written[i].by, Written[i].n, Written[i].k - 1)
          /\ (Written[i].k = 1 /\ i > 1) => Written[i - 1].k = LinePieces

\* a worker that has written a line waits for the lock while the main thread
\* is in the middle of its own line, part of it already spilled
C15_Witness ==
    /\ lock = Some(0)
    /\ epc[0].at = "write"
    /\ epc[1].at = "acquire"
    /\ pending # <<>>
    /\ epc[0].k = 2
    /\ Len(wire) > LinePieces
    /\ wire[1].by = 1

\* the types of the event records (bridge.py: the payloads handed to emit)
EventTypes == {"log", "file_start", "file_progress", "file_end", "progress", "result", "done"}

\* C16 as the specification states it: every line on standard output is an
\* event record written by emit
C16_AsClaimed == \A i \in 1..Len(stdout) : stdout[i].type \in EventTypes

\* a series run whose request names both folders, past the pairing
SeriesPaired ==
    /\ request.mode = "series"
    /\ ~IsNone(request.video_folder)
    /\ ~IsNone(request.audio_folder)
    /\ main_pc # "request"

\* match_by_fingerprint was invoked: the record logged just before the call
\* (line 354), or one of the records it logs per video file
FingerprintInvoked ==
    \E i \in 1..Len(stdout) :
        /\ stdout[i].type = "log"
        /\ Head(stdout[i].message) \in
              {"No matching file pairs found by name. Falling back to fingerprint matching.",
               "Fingerprint match: ",
               "Fingerprint match below threshold for "}

\* the pairs match_by_fingerprint gives for the folders of the request
FingerprintPairs ==
    MatchLoop(disk.videos, DictKeys(disk.audios, Len(disk.audios)), Len(disk.videos)).pairs

\* a task was submitted to the pool
Submitted == \E t \in Tasks : pc[t] # "unused"

\* C17: in a series run the fingerprint matcher is invoked only if the
\* filename pairer returned no pair; pairs of the filename pairer are the
\* pairs analyzed; and when both give no pair the run emits `done` with an
\* empty result list and submits nothing
C17_FingerprintOnlyAsFallback ==
    SeriesPaired =>
        /\ FingerprintInvoked => disk.name_pairs = <<>>
        /\ disk.name_pairs # <<>> => pairs = disk.name_pairs
        /\ (disk.name_pairs = <<>> /\ FingerprintPairs = <<>>) =>
              /\ main_pc = "done"
              /\ ~Submitted
              /\ pairs = <<>>
              /\ stdout[Len(stdout)] = EvDone(<<>>)

\* the pairer found nothing, the fingerprint matcher looked at the videos
\* and paired none, and the run is over
C17_Witness ==
    /\ SeriesPaired
    /\ disk.name_pairs = <<>>
    /\ disk.videos # <<>>
    /\ FingerprintInvoked
    /\ FingerprintPairs = <<>>
    /\ main_pc = "done"

\* the similarity of a video and an audio as the claim has it: the dot
\* product of the two fingerprints, and 0 when either is absent
ClaimedScore(v, a) ==
    LET fv == FingerprintOf(v)
        fa == FingerprintOf(a)
    IN IF IsNone(fv) \/ IsNone(fa) THEN 0
       ELSE Head(Val(fv)) * Head(Val(fa)) + Head(Tail(Val(fv))) * Head(Tail(Val(fa)))

AudioSet == {disk.audios[j] : j \in 1..Len(disk.audios)}

\* the maximum similarity over all audio files is at least the threshold
ReachesThreshold(v) ==
    /\ AudioSet # {}
    /\ \E a \in AudioSet : ClaimedScore(v, a) >= Threshold

\* C18: match_by_fingerprint returns the videos whose best audio reaches the
\* threshold, in input order and each once, every one with an audio that
\* attains the maximum similarity over all audio files (absent fingerprints
\* scoring 0); the same audio may go with several videos, and without audio
\* files nothing is paired
C18_PairsByBestFingerprint ==
    (request.mode = "series" /\ main_pc # "request" /\ disk.name_pairs = <<>>
        /\ ~IsNone(request.video_folder) /\ ~IsNone(request.audio_folder)) =>
        /\ [i \in 1..Len(pairs) |-> Head(pairs[i])] = SelectSeq(disk.videos, ReachesThreshold)
        /\ \A i \in 1..Len(pairs) :
              /\ pairs[i][2] \in AudioSet
              /\ \A a \in AudioSet :
                    ClaimedScore(pairs[i][1], a) <= ClaimedScore(pairs[i][1], pairs[i][2])
        /\ disk.audios = <<>> => pairs = <<>>

\* two videos are paired with the same audio, which beats the other audio
\* for the first video and reaches exactly the threshold for the second
C18_Witness ==
    /\ main_pc = "submitted"
    /\ disk.name_pairs = <<>>
    /\ Len(pairs) = 2
    /\ pairs[1][2] = pairs[2][2]
    /\ Len(disk.audios) = 2
    /\ ClaimedScore(pairs[1][1], pairs[1][2]) = 100
    /\ ClaimedScore(pairs[2][1], pairs[2][2]) = Threshold
    /\ \E a \in AudioSet : ClaimedScore(pairs[1][1], a) < 0

\* process_pair was entered for task t
SimpleEntered(t) ==
    \/ pc[t] \in {"p_start", "p_dur", "p_end"}
    \/ \E i \in 1..Len(acquired[t]) : acquired[t][i].via = "load_audio"

\* the worker of task t has returned
WorkerDone(t) == pc[t] \in {"completed", "collected"}

\* the records the except clause of the worker logs for a file name
FailureLogs(name) ==
    {i \in 1..Len(stdout) :
        /\ stdout[i].type = "log"
        /\ stdout[i].message = <<"Enhanced analysis failed for ", name, ": ">> \o ExcText}

\* the error texts only enhanced_process_pair returns
EnhancedOnlyErrors == {ErrFailedStart, ErrDurationEnhanced, ErrFailedEnd}

\* C19: process_pair runs for a pair exactly if the worker's except clause
\* ran for it, that is if enhanced_process_pair raised (always when the cache
\* directory cannot be made, never in a run without a fault, and never for a
\* result that enhanced_process_pair returned with an error); the worker
\* then returns what process_pair returned, and no worker ends in an
\* exception
C19_FallbackOnExceptionOnly ==
    /\ \A t \in Tasks :
          /\ pc[t] # "aborted"
          /\ pc[t] = "raised" => ~SimpleEntered(t)
          /\ (pc[t] # "unused") =>
                Cardinality(FailureLogs(basename(pair[t][1])))
                   = Cardinality({u \in Tasks : /\ pc[u] # "unused"
                                                /\ basename(pair[u][1]) = basename(pair[t][1])
                                                /\ SimpleEntered(u)})
          /\ fault = "none" => ~SimpleEntered(t)
          /\ (WorkerDone(t) /\ fault = "cache_dir") => SimpleEntered(t)
          /\ WorkerDone(t) =>
                /\ ~IsNone(result[t])
                /\ Val(result[t]).error # None =>
                      (Val(Val(result[t]).error) \in EnhancedOnlyErrors => ~SimpleEntered(t))
                /\ SimpleEntered(t) =>
                      acquired[t][Len(acquired[t])].via = "load_audio"

\* the cache directory cannot be made: enhanced_process_pair raised, and the
\* worker returned the result of process_pair, which has both delays
C19_Witness ==
    \E t \in Tasks :
        /\ pc[t] = "collected"
        /\ fault = "cache_dir"
        /\ SimpleEntered(t)
        /\ FailureLogs(basename(pair[t][1])) # {}
        /\ IsNone(Val(result[t]).error)
        /\ ~IsNone(Val(result[t]).end_delay)

\* the payloads of the `result` records among the first n records of stdout
RECURSIVE ResultEvents(_)
ResultEvents(n) ==
    IF n = 0 THEN <<>>
    ELSE IF stdout[n].type = "result"
    THEN Append(ResultEvents(n - 1), stdout[n])
    ELSE ResultEvents(n - 1)

\* the list of `done` is, element for element, the payloads of the `result`
\* records before it
DoneMirrorsResults ==
    \A d \in DoneEvents :
        /\ Len(stdout[d].results) = Len(ResultEvents(d - 1))
        /\ \A j \in 1..Len(stdout[d].results) :
              ResultEvents(d - 1)[j] = EvResult(stdout[d].results[j])

\* the tasks of completion that are not in early, in the same order
RECURSIVE LateCompletions(_)
LateCompletions(n) ==
    IF n = 0 THEN <<>>
    ELSE IF completion[n] \in early
    THEN LateCompletions(n - 1)
    ELSE Append(LateCompletions(n - 1), completion[n])

\* C20: the list of `done` equals the payloads of the `result` records
\* before it, in the same order, which is the order in which as_completed
\* yielded the tasks: first the tasks already finished when the loop started
\* (in any order), then the others in the order they completed
C20_DoneMirrorsResultsInYieldOrder ==
    /\ DoneMirrorsResults
    /\ Len(results) = Len(yielded)
    /\ \A j \in 1..Len(yielded) :
          /\ results[j] = normalize_result(Val(result[yielded[j]]))
          /\ j <= Cardinality(early) => yielded[j] \in early
          /\ j > Cardinality(early) =>
                yielded[j] = LateCompletions(Len(completion))[j - Cardinality(early)]

\* a run is over in which one task had finished before the loop started and
\* the other finished after, and both results are in the list of `done`
C20_Witness ==
    /\ main_pc = "done"
    /\ Len(yielded) = 2
    /\ Cardinality(early) = 1
    /\ yielded = completion
    /\ Len(stdout[Len(stdout)].results) = 2

\* C20 as the specification states it: the results are in the order in
\* which the tasks completed
C20_AsClaimed ==
    \A j \in 1..Len(yielded) : yielded[j] = completion[j]

Outcome(sd, ed, err) == [start_delay |-> sd, end_delay |-> ed, error |-> err]

\* stands for an exception leaving the analyzer
Raised == Outcome(None, None, Some(<<"raised">>))

\* the measurement of two segments, as both analyzers take it
Measured(a, b) == EstimateOnPrefix(a, b, Min(Len(a), Len(b)))

TooShort(a, b) == InsufficientAudio(Min(Len(a), Len(b)), sr)

\* a segment as load_audio_segment delivers it when nothing is cached
SegmentAlone(path, offset, tag) ==
    load_audio_segment(<<>>, path, fs[path], sr, segment * sr, offset, tag,
                       window_sec_of(segment)).buf

\* the end of the analysis of p and s, given the start delay and the two
\* end segments
EndAlone(sd, a, b, dp, ds, failed, raises) ==
    IF IsNone(a) \/ IsNone(b) THEN Outcome(sd, None, Some(failed))
    ELSE IF TooShort(Val(a), Val(b)) THEN Outcome(sd, None, Some(ErrInsufficientEnd))
    ELSE IF fault = "estimate_end" THEN raises
    ELSE Outcome(sd, Some(Reconcile(Measured(Val(a), Val(b)), dp, ds)), None)

\* what enhanced_process_pair gives for p and s when it is the only analysis
\* that ever used the cache (Raised stands for an exception)
EnhancedAlone(p, s) ==
    LET a == SegmentAlone(p, 0, "start")
        b == SegmentAlone(s, 0, "start")
        dp == get_audio_duration(fs[p])
        ds == get_audio_duration(fs[s])
    IN IF fault = "cache_dir" THEN Raised
       ELSE IF IsNone(a) \/ IsNone(b) THEN Outcome(None, None, Some(ErrFailedStart))
       ELSE IF TooShort(Val(a), Val(b)) THEN Outcome(None, None, Some(ErrInsufficientStart))
       ELSE IF fault = "estimate_start" THEN Raised
       ELSE IF IsNone(dp) \/ IsNone(ds)
       THEN Outcome(Some(Measured(Val(a), Val(b))), None, Some(ErrDurationEnhanced))
       ELSE EndAlone(Some(Measured(Val(a), Val(b))),
                     SegmentAlone(p, Max(0, Val(dp) - segment * sr), "end"),
                     SegmentAlone(s, Max(0, Val(ds) - segment * sr), "end"),
                     Val(dp), Val(ds), ErrFailedEnd, Raised)

\* what process_pair gives for p and s
SimpleAlone(p, s) ==
    LET a == load_audio(fs[p], segment * sr, 0)
        b == load_audio(fs[s], segment * sr, 0)
        dp == get_audio_duration(fs[p])
        ds == get_audio_duration(fs[s])
    IN IF IsNone(a) THEN Outcome(None, None, Some(ErrFailedStartOf(PrimaryWord, p)))
       ELSE IF IsNone(b) THEN Outcome(None, None, Some(ErrFailedStartOf(SecondaryWord, s)))
       ELSE IF TooShort(Val(a), Val(b)) THEN Outcome(None, None, Some(ErrInsufficientStart))
       ELSE IF fault = "estimate_start" THEN Outcome(None, None, Some(ExcText))
       ELSE IF IsNone(dp) \/ IsNone(ds)
       THEN Outcome(Some(Measured(Val(a), Val(b))), None, Some(ErrDurationSimple))
       ELSE LET sd == Some(Measured(Val(a), Val(b)))
                c == load_audio(fs[p], segment * sr, Max(0, Val(dp) - segment * sr))
                d == load_audio(fs[s], segment * sr, Max(0, Val(ds) - segment * sr))
            IN IF IsNone(c) THEN Outcome(sd, None, Some(ErrFailedEndOf(PrimaryWord, p)))
               ELSE IF IsNone(d)
               THEN Outcome(sd, None, Some(ErrFailedEndOf(SecondaryWord, s)))
               ELSE EndAlone(sd, c, d, Val(dp), Val(ds), ErrFailedEnd,
                             Outcome(sd, None, Some(ExcText)))

\* the result of the worker for p and s whatever the other workers do
WorkerAlone(p, s) ==
    IF EnhancedAlone(p, s) = Raised THEN SimpleAlone(p, s) ELSE EnhancedAlone(p, s)

\* C21 as the specification states it: the result of every pair (start
\* delay, end delay, error) is the same under every scheduling of the
\* workers, that is, it is the result the pair gets when analyzed alone
C21_AsClaimed ==
    \A t \in Tasks :
        WorkerDone(t) =>
            Outcome(Val(result[t]).start_delay, Val(result[t]).end_delay,
                    Val(result[t]).error)
               = WorkerAlone(pair[t][1], pair[t][2])

\* the results behind the rows of a printed table, in the order of the rows
RowResults == sorted(results, Len(results))

\* the positions of the tables on standard output
Tables == {j \in 1..Len(stdout) : stdout[j].type = "table"}

\* result r has both delays and no error
BothShown(r) == ~IsNone(r[3]) /\ ~IsNone(r[4]) /\ IsNone(r[5])

\* |start - end| of result r, in tenths of a millisecond
Divergence(r) == Abs(Val(r[3]) - Val(r[4]))

\* C22: in a printed table, the row of a result with both delays and no
\* error shows High exactly when |start - end| < 50 ms, Medium exactly when
\* 50 ms <= |start - end| < 500 ms, and Low exactly when it is >= 500 ms
C22_ConfidenceByThresholds ==
    \A j \in Tables :
        LET ordered == RowResults
        IN \A i \in 1..Len(ordered) :
               BothShown(ordered[i]) =>
                   LET diff == Divergence(ordered[i])
                       label == stdout[j].rows[i][5]
                   IN /\ label = "[green]High[/green]" <=> diff < 50 * TenthsPerMs
                      /\ label = "[yellow]Medium[/yellow]"
                            <=> (50 * TenthsPerMs <= diff /\ diff < 500 * TenthsPerMs)
                      /\ label = "[red]Low[/red]" <=> diff >= 500 * TenthsPerMs

\* a table is printed with a row at exactly 50 ms, shown Medium, and a row at
\* exactly 500 ms, shown Low
C22_Witness ==
    \E j \in Tables :
        LET ordered == RowResults
        IN \E i, k \in 1..Len(ordered) :
               /\ BothShown(ordered[i])
               /\ BothShown(ordered[k])
               /\ Divergence(ordered[i]) = 50 * TenthsPerMs
               /\ Divergence(ordered[k]) = 500 * TenthsPerMs
               /\ stdout[j].rows[i][5] = "[yellow]Medium[/yellow]"
               /\ stdout[j].rows[k][5] = "[red]Low[/red]"

\* the tags of the calls of load_audio_segment (bridge.py:194-228, 250)
SegmentTags == {"start", "mid", "end", "fingerprint"}

\* the offsets, in samples, at which the file f can be asked for
OffsetsOf(f) == 0..Max(f.len, IF IsNone(f.dur) THEN 0 ELSE Val(f.dur))

\* the calls load_audio_segment(path, sr, segment, offset, tag, window_sec)
\* on the files of the run whose key is k
CallsUnder(k) ==
    {c \in [path : DOMAIN fs, offset : 0..Max(SrWindow, SrSmall) * (WindowCapSec + 4),
            tag : SegmentTags] :
        /\ c.offset \in OffsetsOf(fs[c.path])
        /\ cache_key(c.path, fs[c.path], sr, segment * sr, c.offset, c.tag) = k}

\* arr is select_high_energy_window of what load_audio decodes for call c,
\* and is no longer than the window when the decoded buffer is longer than
\* the window (so it is not the decoded buffer)
WindowedFor(arr, c) ==
    LET y == load_audio(fs[c.path], segment * sr, c.offset)
        window_len == Max(1, window_sec_of(segment) * sr)
    IN /\ ~IsNone(y)
       /\ arr = select_high_energy_window(Val(y), sr, window_sec_of(segment))
       /\ Len(Val(y)) > window_len => (Len(arr) <= window_len /\ arr # Val(y))

\* C23: every array in the segment cache is select_high_energy_window of the
\* buffer decoded for a call with that key, at most a window long when the
\* decoded buffer is longer than the window and then not the decoded buffer;
\* and what load_audio_segment returns on a hit is such an array
C23_CacheHoldsWindowedArrays ==
    \A k \in DOMAIN cache :
        /\ \E c \in CallsUnder(k) : WindowedFor(cache[k], c)
        /\ \A c \in CallsUnder(k) :
              LET r == load_audio_segment(cache, c.path, fs[c.path], sr, segment * sr,
                                          c.offset, c.tag, window_sec_of(segment))
              IN /\ r.from = "cache"
                 /\ \E d \in CallsUnder(k) : WindowedFor(Val(r.buf), d)

\* a later invocation has taken a segment from the cache that is shorter than
\* the buffer the decoder gave for it
C23_Witness ==
    /\ invocation = 2
    /\ \E i \in 1..Len(acquired[2]) : acquired[2][i].from = "cache"
    /\ \E k \in DOMAIN cache : \E c \in CallsUnder(k) :
          Len(cache[k]) < Len(Val(load_audio(fs[c.path], segment * sr, c.offset)))

\* the analysis of task t measured on a silent file: after normalization its
\* segments are all zero, the case in which the delay is undefined
MeasuredOnSilence(t) ==
    /\ ~IsNone(result[t])
    /\ fs[pair[t][1]].silent \/ fs[pair[t][2]].silent
    /\ fs[pair[t][1]].decode = "ok"
    /\ fs[pair[t][2]].decode = "ok"

C24_LoadAudioRaisesNothing ==
    ~IsNone(loaded) =>
        /\ Val(loaded).kind = "return"
        /\ Val(loaded).value \in {"buffer", "none"}

\* the native decoders failed, ffmpeg exited with a non-zero code naming a
\* missing video stream, the retry raised, and the call returned None
C24_Witness ==
    /\ ~IsNone(loaded)
    /\ ~Val(backends).is_video
    /\ Val(backends).soundfile = "raise"
    /\ Val(backends).librosa = "raise"
    /\ Val(backends).ffmpeg = "nonzero"
    /\ Val(backends).stderr_video
    /\ Val(backends).retry = "RuntimeError"
    /\ Val(loaded).value = "none"
    /\ Len(stdout) = 2

\* the window length of the call, its hop, and the number of frames summed
CallWindowLen == Max(1, window_sec_of(segment) * sr)

CallHop == hop_of(sr)

\* the energy of the window that starts at frame idx (0-based): the sum of
\* the short-time RMS of its frames
WindowEnergy(idx) ==
    WindowSum(Rms(win_y, frame_of(sr), CallHop), idx + 1, Max(1, CallWindowLen \div CallHop))

\* the frames at which a window can start
WindowStarts ==
    0..(RmsFrames(win_y, frame_of(sr), CallHop) - Max(1, CallWindowLen \div CallHop))

\* idx is np.argmax of the window energies: the first frame of greatest energy
IsArgmax(idx) ==
    /\ idx \in WindowStarts
    /\ \A j \in WindowStarts : WindowEnergy(j) <= WindowEnergy(idx)
    /\ \A j \in WindowStarts : j < idx => WindowEnergy(j) < WindowEnergy(idx)

\* out is the n samples of win_y from sample start on (0-based)
RangeOf(out, start, n) ==
    /\ Len(out) = n
    /\ start + n <= Len(win_y)
    /\ \A i \in 1..n : out[i] = win_y[start + i]

\* C25 as the specification states it: a buffer no longer than the window is
\* returned unchanged, and of a longer one exactly window_len samples are
\* returned, those from sample argmax * hop on
C25_AsClaimed ==
    ~IsNone(win_out) =>
        IF Len(win_y) <= CallWindowLen
        THEN Val(win_out) = win_y
        ELSE \E idx \in WindowStarts :
                /\ IsArgmax(idx)
                /\ RangeOf(Val(win_out), idx * CallHop, CallWindowLen)

\* C25: a buffer no longer than the window is returned unchanged; of a longer
\* one the samples from argmax * hop on are returned, window_len of them, or
\* those up to the end of the buffer when fewer are left, which is at most
\* one hop fewer
C25_WindowClippedAtTheEnd ==
    ~IsNone(win_out) =>
        IF Len(win_y) <= CallWindowLen
        THEN Val(win_out) = win_y
        ELSE \E idx \in WindowStarts :
                /\ IsArgmax(idx)
                /\ RangeOf(Val(win_out), idx * CallHop,
                           Min(CallWindowLen, Len(win_y) - idx * CallHop))
                /\ Len(Val(win_out)) >= CallWindowLen - CallHop
                /\ Len(Val(win_out)) <= CallWindowLen

\* the loud passage is at the end of a longer buffer, and the window
\* returned is shorter than window_len
C25_Witness ==
    /\ ~IsNone(win_out)
    /\ Len(win_y) > CallWindowLen
    /\ Len(Val(win_out)) < CallWindowLen

RECURSIVE LastUnder(_, _)
\* the last of the first n puts made under key k (0: none)
LastUnder(k, n) ==
    IF n = 0 THEN 0
    ELSE IF KeyOf(Head(puts[n])) = k THEN n
    ELSE LastUnder(k, n - 1)

\* acquisition e is for the file of acquisition d as it was before its
\* modification time or its size changed
BeforeTheChange(e, d) ==
    /\ e.path = d.path
    /\ ~IsNone(e.stat)
    /\ ~IsNone(d.stat)
    /\ e.stat # d.stat

\* the file behind acquisition d
FileOf(d) == [PlainFile(d.duration) EXCEPT !.stat = d.stat]

\* what load_audio_segment returns for acquisition d was not cached for its
\* path under another modification time or size
NothingStale(d) ==
    LET r == load_audio_segment(cache, d.path, FileOf(d), d.rate, d.duration,
                                d.offset, d.tag, 1)
        j == LastUnder(KeyOf(d), Len(puts))
    IN r.from = "cache" =>
          /\ j > 0
          /\ r.buf = Some(Head(Tail(puts[j])))
          /\ ~BeforeTheChange(Head(puts[j]), d)

\* a step leaves every entry in place, and changes the content of none but
\* the entry of the key it puts under
OtherKeysUntouched ==
    \A k \in DOMAIN cache :
        /\ k \in DOMAIN cache'
        /\ cache'[k] # cache[k] =>
              (Len(puts') = Len(puts) + 1 /\ KeyOf(Head(puts'[Len(puts')])) = k)

\* C27: what load_audio_segment returns for a file whose modification time
\* or size has changed is never a segment cached for that path before the
\* change, and no put removes an entry or changes the entry of another key
C27_StaleNeverReturnedOthersUntouched ==
    /\ [](\A d \in Acquisitions : NothingStale(d))
    /\ [][OtherKeysUntouched]_vars

\* a segment was cached for the base file, its modification time changed, a
\* different segment was cached for it, and that one is returned; the entry
\* of before the change is still there
C27_Witness ==
    /\ Len(puts) = 2
    /\ Head(puts[1]) = BaseAcquisition
    /\ Head(puts[2]) = [BaseAcquisition EXCEPT !.stat = Some(<<3, 2>>)]
    /\ Head(Tail(puts[1])) # Head(Tail(puts[2]))
    /\ load_audio_segment(cache, BaseAcquisition.path, FileOf(Head(puts[2])), SrSmall, 2, 0,
                          "start", 1).buf = Some(Head(Tail(puts[2])))
    /\ cache[KeyOf(BaseAcquisition)] = Head(Tail(puts[1]))

\* the names of the files handed to the pool
PoolFiles == {basename(pairs[i][1]) : i \in 1..Len(pairs)}

\* how many of the pairs handed to the pool have a primary of that name
SubmittedAs(name) == Cardinality({i \in 1..Len(pairs) : basename(pairs[i][1]) = name})

\* the number of records of a type written for a file so far
FileEvents(type, name) ==
    Cardinality({i \in 1..Len(stdout) : stdout[i].type = type /\ stdout[i].file = name})

FileProgressEvents(percent, name) ==
    Cardinality({i \in 1..Len(stdout) :
        /\ stdout[i].type = "file_progress"
        /\ stdout[i].file = name
        /\ stdout[i].percent = percent})

ProgressNaming(name) ==
    Cardinality({i \in 1..Len(stdout) :
        stdout[i].type = "progress" /\ stdout[i].current = name})

ResultsFor(name) ==
    Cardinality({i \in 1..Len(stdout) :
        stdout[i].type = "result" /\ stdout[i].videoFile = name})

\* the positions of the `progress` records on standard output
ProgressEvents == {i \in 1..Len(stdout) : stdout[i].type = "progress"}

\* at every moment, of the records of one file no kind is ahead of the kind
\* that comes before it in the order file_start, file_progress 0,
\* file_progress 100, file_end, progress, result (a file submitted twice has
\* each record twice)
InFileOrder(name) ==
    /\ SubmittedAs(name) >= FileEvents("file_start", name)
    /\ FileEvents("file_start", name) >= FileProgressEvents(0, name)
    /\ FileProgressEvents(0, name) >= FileProgressEvents(100, name)
    /\ FileProgressEvents(100, name) >= FileEvents("file_end", name)
    /\ FileEvents("file_end", name) >= ProgressNaming(name)
    /\ ProgressNaming(name) >= ResultsFor(name)
    /\ ProgressNaming(name) <= ResultsFor(name) + 1

\* C28: the records of every file handed to the pool come in the order
\* file_start, file_progress 0, file_progress 100, file_end, the progress
\* record naming the file, its result record, and all of them have come when
\* done is written; the k-th progress record carries processed = k, which is
\* at most total, and the last one carries processed = total
C28_EventsInOrderProgressCounts ==
    /\ \A name \in PoolFiles :
          /\ InFileOrder(name)
          /\ main_pc = "done" => ResultsFor(name) = SubmittedAs(name)
    /\ \A i \in ProgressEvents :
          /\ stdout[i].processed = Cardinality({j \in ProgressEvents : j <= i})
          /\ stdout[i].total = Len(pairs)
          /\ stdout[i].processed <= stdout[i].total
    /\ (main_pc = "done" /\ Len(pairs) > 0) =>
          \E i \in ProgressEvents :
              /\ \A j \in ProgressEvents : j <= i
              /\ stdout[i].processed = stdout[i].total

\* a run of two files is done: the second file started only after the first
\* had ended, and the last progress record carries processed = total = 2
C28_Witness ==
    /\ main_pc = "done"
    /\ Len(pairs) = 2
    /\ \E i, j \in 1..Len(stdout) :
          /\ i < j
          /\ stdout[i].type = "file_end"
          /\ stdout[j].type = "file_start"
    /\ \E i \in ProgressEvents : stdout[i].processed = 2 /\ stdout[i].total = 2

\* the log records that say which ffmpeg is used
UsingLogs ==
    {i \in 1..Len(stdout) :
        /\ stdout[i].type = "log"
        /\ Head(stdout[i].message) \in {"Using bundled ffmpeg from ",
                                        "Using ffmpeg from PATH (bundled ffmpeg not found).",
                                        "Using ffmpeg"}}

\* C29 as the specification states it: however the threads interleave in
\* setup_ffmpeg_env, the bundled folder is prepended to PATH at most once and
\* the log record is emitted at most once
C29_AsClaimed ==
    /\ Len(env_path) <= 1
    /\ Cardinality(UsingLogs) <= 1

=============================================================================
